---- MODULE Spec2Model ----
(***************************************************************************)
(* Credential lifecycle engine of the FreeSocks control plane:             *)
(*   - reconciliation scanner   src/src/handlers/update.js                 *)
(*   - revocation scanner       src/unnamed/part_004 (handlers/delete.js)  *)
(*   - issuance                 src/unnamed/part_003 (handlers/get.js)     *)
(* Stores are Cloudflare KV namespaces: ACCESS_KEYS_NAMESPACE (credential  *)
(* records), STATE_NAMESPACE (scan cursors), API_ENDPOINTS_NAMESPACE (the  *)
(* backend listing).  Time is counted in whole days since the Unix epoch.  *)
(***************************************************************************)
EXTENDS Integers, Sequences, FiniteSets, TLC

VARIABLES
    accessKeys,   \* ACCESS_KEYS_NAMESPACE: key name -> stored record
    oracle,       \* Usage Oracle: key name -> the sample a query returns for it
    backendKeys,  \* key names that are live on their backend (Outline server)
    endpoints,    \* API_ENDPOINTS_NAMESPACE.list(): the hostnames, in key order
    stateKV,      \* STATE_NAMESPACE: cursor key -> persisted cursor string
    now,          \* wall clock, in days since the epoch
    maxKeys,      \* MAX_KEYS_PER_RUN of this deployment
    lastRun,      \* report of the most recent handler invocation
    passLog,      \* credentials visited by the chain of invocations of a pass
    race          \* program counters and locals of two uncoordinated steps

vars == <<accessKeys, oracle, backendKeys, endpoints, stateKV, now, maxKeys, lastRun, passLog, race>>

---------------------------------------------------------------------------
(* Bounds of the model. *)

MaxKeysPerHost == 3     \* credentials issued per backend
MaxBudget == 2          \* MAX_KEYS_PER_RUN ranges over 1..MaxBudget
MaxIssued == 1          \* credentials issued in a lifecycle behaviour
MaxFaults == 1          \* failing operations injected per invocation
MaxTicks == 1           \* expiration periods that pass in a behaviour
MaxLog == 6             \* length up to which a pass is followed

(* Program constants. *)

EXPIRATION_DAYS == 90   \* VAR_EXPIRATION_DAYS
StorePageLimit == 1000  \* Math.min(remainingKeys, 1000)
Epoch == 0              \* new Date(null) is the epoch
NowStart == 19000       \* a present day, more than EXPIRATION_DAYS after the epoch

(* JavaScript values of the optional record fields. *)

Missing == -2           \* the property is structurally absent (undefined)
Null == -1              \* the property is null

UPDATE_CURSOR_KEY == "update_script_cursor"
DELETE_CURSOR_KEY == "delete_script_cursor"

(* The hostnames a deployment may register, in the store's key order. *)
Hostnames == <<"A", "B">>

HostSet == {Hostnames[i] : i \in 1..Len(Hostnames)}
KeyNames == HostSet \X (1..MaxKeysPerHost)

---------------------------------------------------------------------------
(* Strings that the code formats and parses are sequences of atoms; ":" is *)
(* the separator character of the cursor.                                  *)

NoCursor == <<>>              \* null / undefined: falsy

HostStr(h) == <<h>>

\* `${x}` of a value that may be undefined
Str(s) == IF s = NoCursor THEN <<"undefined">> ELSE s

\* `${hostname.name}:${nextCursor}`
FormatCursor(h, c) == HostStr(h) \o <<":">> \o Str(c)

RECURSIVE SplitColon(_)
\* String.prototype.split(':')
SplitColon(s) ==
    IF \A i \in 1..Len(s) : s[i] # ":"
    THEN <<s>>
    ELSE LET i == CHOOSE j \in 1..Len(s) :
                      s[j] = ":" /\ \A k \in 1..(j-1) : s[k] # ":"
         IN <<SubSeq(s, 1, i-1)>> \o SplitColon(SubSeq(s, i+1, Len(s)))

\* [startHostname, currentCursor] = startCursor.split(':')
ParseCursor(s) ==
    LET parts == SplitColon(s)
    IN [startHostname |-> parts[1],
        currentCursor |-> IF Len(parts) >= 2 THEN parts[2] ELSE NoCursor]

---------------------------------------------------------------------------
(* The credential store's prefix listing with cursor pagination.           *)

\* the store token naming "p keys of this prefix were already returned"
Token(p) == [i \in 1..p |-> "i"]

ValidToken(t) == Len(t) >= 1 /\ \A i \in 1..Len(t) : t[i] = "i"

\* key names of ACCESS_KEYS_NAMESPACE with prefix `${hostname}-key-`, in order
KeysOf(kv, h) ==
    LET ids == {id \in 1..MaxKeysPerHost : <<h, id>> \in DOMAIN kv}
        n == Cardinality(ids)
        nth(i) == CHOOSE id \in ids : Cardinality({j \in ids : j < id}) = i - 1
    IN [i \in 1..n |-> <<h, nth(i)>>]

Min(a, b) == IF a < b THEN a ELSE b

\* ACCESS_KEYS_NAMESPACE.list({prefix, cursor, limit}); `badCursor` is what
\* the store does with a cursor it never issued: "throw" or "ignore".
ListKeys(kv, h, cursor, limit, badCursor) ==
    LET all == KeysOf(kv, h)
        bad == cursor # NoCursor /\ (~ValidToken(cursor) \/ Len(cursor) > Len(all))
        from == IF cursor = NoCursor \/ bad THEN 0 ELSE Len(cursor)
        upto == Min(Len(all), from + limit)
    IN IF bad /\ badCursor = "throw"
       THEN [ok |-> FALSE, keys |-> <<>>, cursor |-> NoCursor]
       ELSE [ok |-> TRUE,
             keys |-> SubSeq(all, from + 1, upto),
             cursor |-> IF upto < Len(all) THEN Token(upto) ELSE NoCursor]

---------------------------------------------------------------------------
(* Credential records.  creationTime, deletionTime and lastSeen are days   *)
(* (ISO strings in the code, whose order is the order of the instants);    *)
(* currentlyConnected is "missing", "null", "true" or "false".             *)

Rec(c, d, l, cc) ==
    [creationTime |-> c, deletionTime |-> d, lastSeen |-> l, currentlyConnected |-> cc]

\* the record written at issuance (handlers/get.js)
FreshRecord(t) == Rec(t, Null, Null, "null")

\* the record written by the first version of the issuance path
LegacyRecord(t) == Rec(t, Missing, Missing, "missing")

\* x ?? null
Coalesce(x) == IF x = Missing THEN Null ELSE x
CoalesceCC(x) == IF x = "missing" THEN "null" ELSE x

BoolStr(b) == IF b THEN "true" ELSE "false"

\* const accessKeyId = key.split('-').pop(): the backend's numeric key id
AccessKeyId(key) == key[2]

\* const [hostname, accessKey] = keyName.split('-key-')
HostOf(key) == key[1]

(* An activity snapshot is a function from key ids to entries; an entry    *)
(* with present = FALSE stands for an id that is not in activeKeys.        *)

NoEntry == [present |-> FALSE, totalBytes |-> 0, lastSeen |-> Null]
Entry(b, t) == [present |-> TRUE, totalBytes |-> b, lastSeen |-> t]

(* The Usage Oracle holds, per key, no sample or a sample of `bytes` whose *)
(* timestamp is the evaluation time of the query, `skew` days behind the   *)
(* control plane's clock.                                                  *)

NoSample == [present |-> FALSE, bytes |-> 0, skew |-> 0]
Sample(b, k) == [present |-> TRUE, bytes |-> b, skew |-> k]
Samples == {NoSample, Sample(1, 0), Sample(1, 1), Sample(0, 0)}

\* queryActiveKeys, lines 312-330, of a result set with at most one sample
\* per key: new Date(item.value[0] * 1000).toISOString(), parseFloat(item.value[1])
Snapshot(orc, t) ==
    [key \in DOMAIN orc |->
        IF orc[key].present THEN Entry(orc[key].bytes, t - orc[key].skew) ELSE NoEntry]

---------------------------------------------------------------------------
(* The report and the stores threaded through one scanner invocation.      *)

EmptyCtx(kv) ==
    [kv |-> kv,            \* ACCESS_KEYS_NAMESPACE
     visited |-> <<>>,     \* keys processKey was called on, in order
     updatedKeys |-> <<>>, \* updateResults.updatedKeys (the key names)
     errors |-> <<>>,      \* updateResults.errors
     puts |-> <<>>,        \* keys ACCESS_KEYS_NAMESPACE.put succeeded on
     lists |-> <<>>]       \* <<hostname, cursor>> of every list call

PushError(ctx, e) == [ctx EXCEPT !.errors = Append(@, e)]

\* `Error processing key ${key}: ...`
KeyError(key) == [msg |-> "Error processing key", host |-> key[1], id |-> key[2]]

\* an entry of errors that names a backend
HostError(m, h) == [msg |-> m, host |-> h, id |-> 0]

\* the activity comparison without the totalBytes > 0 test of line 249
ActivityUpdateAnySample(key, rec, activeKeys, isDryRun, putFails, ctx) ==
    LET e == activeKeys[AccessKeyId(key)]
        isActive == e.present
        finalKeyData == [rec EXCEPT
                            !.currentlyConnected = BoolStr(isActive),
                            !.lastSeen = IF isActive THEN e.lastSeen ELSE rec.lastSeen]
        hasChanges == \/ isActive
                      \/ rec.currentlyConnected # BoolStr(isActive)
                      \/ (isActive /\ rec.lastSeen # finalKeyData.lastSeen)
    IN IF ~hasChanges THEN ctx
       ELSE IF isDryRun THEN [ctx EXCEPT !.updatedKeys = Append(@, key)]
       ELSE IF putFails THEN PushError(ctx, KeyError(key))
       ELSE [ctx EXCEPT !.kv = [@ EXCEPT ![key] = finalKeyData],
                        !.puts = Append(@, key),
                        !.updatedKeys = Append(@, key)]

\* processKey, lines 246-285: the activity comparison of a complete record
ActivityUpdate(key, rec, activeKeys, isDryRun, putFails, ctx) ==
    LET e == activeKeys[AccessKeyId(key)]
        isActive == e.present /\ e.totalBytes > 0
        finalKeyData == [rec EXCEPT
                            !.currentlyConnected = BoolStr(isActive),
                            !.lastSeen = IF isActive THEN e.lastSeen ELSE rec.lastSeen]
        hasChanges == \/ isActive
                      \/ rec.currentlyConnected # BoolStr(isActive)
                      \/ (isActive /\ rec.lastSeen # finalKeyData.lastSeen)
    IN IF ~hasChanges THEN ctx
       ELSE IF isDryRun THEN [ctx EXCEPT !.updatedKeys = Append(@, key)]
       ELSE IF putFails THEN PushError(ctx, KeyError(key))
       ELSE [ctx EXCEPT !.kv = [@ EXCEPT ![key] = finalKeyData],
                        !.puts = Append(@, key),
                        !.updatedKeys = Append(@, key)]

\* processKey without the check of line 246
ProcessKeyBodyNoTombstoneSkip(key, activeKeys, isDryRun, fault, ctx) ==
    IF fault = "get" \/ key \notin DOMAIN ctx.kv
    THEN PushError(ctx, KeyError(key))
    ELSE ActivityUpdate(key, ctx.kv[key], activeKeys, isDryRun, fault = "put", ctx)

\* processKey without the return of line 243: the backfilled record goes on
\* to the activity comparison
ProcessKeyBodyNoReturn(key, activeKeys, isDryRun, fault, ctx) ==
    IF fault = "get" \/ key \notin DOMAIN ctx.kv
    THEN PushError(ctx, KeyError(key))
    ELSE
    LET keyData == ctx.kv[key]
        updatedKeyData == [keyData EXCEPT
                              !.deletionTime = Coalesce(@),
                              !.lastSeen = Coalesce(@),
                              !.currentlyConnected = CoalesceCC(@)]
        needsUpdate == keyData # updatedKeyData
        filled == IF ~needsUpdate \/ isDryRun \/ fault = "put" THEN ctx
                  ELSE [ctx EXCEPT !.kv = [@ EXCEPT ![key] = updatedKeyData],
                                   !.puts = Append(@, key),
                                   !.updatedKeys = Append(@, key)]
    IN IF updatedKeyData.deletionTime # Null THEN filled
       ELSE ActivityUpdate(key, updatedKeyData, activeKeys, isDryRun, fault = "put", filled)

\* processKey, lines 204-292; fault is "none", "get" or "put": the store
\* operation of this key that fails after its retries
ProcessKeyBody(key, activeKeys, isDryRun, fault, ctx) ==
    IF fault = "get" \/ key \notin DOMAIN ctx.kv
    THEN PushError(ctx, KeyError(key))
    ELSE
    LET keyData == ctx.kv[key]
        updatedKeyData == [keyData EXCEPT
                              !.deletionTime = Coalesce(@),
                              !.lastSeen = Coalesce(@),
                              !.currentlyConnected = CoalesceCC(@)]
        needsUpdate == keyData # updatedKeyData
    IN IF needsUpdate
       THEN IF isDryRun THEN [ctx EXCEPT !.updatedKeys = Append(@, key)]
            ELSE IF fault = "put" THEN PushError(ctx, KeyError(key))
            ELSE [ctx EXCEPT !.kv = [@ EXCEPT ![key] = updatedKeyData],
                             !.puts = Append(@, key),
                             !.updatedKeys = Append(@, key)]
       ELSE IF updatedKeyData.deletionTime # Null THEN ctx
       ELSE ActivityUpdate(key, updatedKeyData, activeKeys, isDryRun, fault = "put", ctx)

processKey(key, activeKeys, isDryRun, fault, ctx) ==
    ProcessKeyBody(key, activeKeys, isDryRun, fault,
                   [ctx EXCEPT !.visited = Append(@, key)])

---------------------------------------------------------------------------
(* Reconciliation scanner (handlers/update.js).                            *)
(* inp, the environment of one invocation:                                 *)
(*   isDryRun   X-Dry-Run                                                  *)
(*   snap       key name -> entry, what queryActiveKeys returns            *)
(*   hostFault  hostname -> "none", "noEndpoint", "badEndpoint", "oracle"  *)
(*              or "list": the step of that backend that fails             *)
(*   keyFault   key name -> "none", "get" or "put"                         *)
(*   badCursor  "throw" or "ignore" (see ListKeys)                         *)
(*   hostnames  hostnames.keys of API_ENDPOINTS_NAMESPACE.list()           *)

\* activeKeys of one backend: key id -> entry
ActiveKeys(h, snap) == [id \in 1..MaxKeysPerHost |-> snap[<<h, id>>]]

RECURSIVE PageLoop(_, _, _, _, _)
\* for (const key of listResult.keys) { ... if (remainingKeys <= 0) break; }
PageLoop(keys, i, activeKeys, inp, st) ==
    IF i > Len(keys) THEN st
    ELSE LET st1 == [st EXCEPT
                        !.ctx = processKey(keys[i], activeKeys, inp.isDryRun,
                                           inp.keyFault[keys[i]], @),
                        !.processedKeys = @ + 1,
                        !.remainingKeys = @ - 1]
         IN IF st1.remainingKeys <= 0 THEN st1
            ELSE PageLoop(keys, i + 1, activeKeys, inp, st1)

RECURSIVE ListLoop(_, _, _, _, _)
\* do { list; for ...; cursor = listResult.cursor } while (cursor && remainingKeys > 0)
ListLoop(h, activeKeys, inp, cursor, st) ==
    LET listResult == ListKeys(st.ctx.kv, h, cursor,
                               Min(st.remainingKeys, StorePageLimit), inp.badCursor)
        st0 == [st EXCEPT !.ctx.lists = Append(@, [host |-> h, cursor |-> cursor])]
    IN IF inp.hostFault[h] = "list" \/ ~listResult.ok
       THEN [st0 EXCEPT !.threw = TRUE]
       ELSE LET st1 == PageLoop(listResult.keys, 1, activeKeys, inp, st0)
            IN IF listResult.cursor # NoCursor /\ st1.remainingKeys > 0
               THEN ListLoop(h, activeKeys, inp, listResult.cursor, st1)
               ELSE [st1 EXCEPT !.nextCursor = listResult.cursor]

\* returns { processedKeys, nextCursor }, or throws (threw = TRUE)
processKeysForHostname(h, activeKeys, inp, remainingKeys, startCursor, ctx) ==
    ListLoop(h, activeKeys, inp, startCursor,
             [ctx |-> ctx, processedKeys |-> 0, remainingKeys |-> remainingKeys,
              nextCursor |-> NoCursor, threw |-> FALSE])

RECURSIVE HostLoop(_, _, _, _)
\* for (const hostname of hostnames.keys) { ... } of updateAccessKeys
HostLoop(i, N, inp, st) ==
    IF i > Len(inp.hostnames) THEN st
    ELSE
    LET h == inp.hostnames[i]
        s0 == [st EXCEPT !.startHostname = NoCursor]
        fault == inp.hostFault[h]
    IN IF st.startHostname # NoCursor /\ HostStr(h) # st.startHostname
       THEN HostLoop(i + 1, N, inp, st)
       ELSE IF fault = "noEndpoint"
       THEN HostLoop(i + 1, N, inp,
                [s0 EXCEPT !.ctx = PushError(@, HostError("Endpoint not found for hostname", h))])
       ELSE IF fault = "badEndpoint"
       THEN HostLoop(i + 1, N, inp,
                [s0 EXCEPT !.ctx = PushError(@, HostError("Invalid endpoint data for hostname", h))])
       ELSE IF fault = "oracle"
       THEN HostLoop(i + 1, N, inp,
                [s0 EXCEPT !.ctx = PushError(@, HostError("Error querying active keys for", h))])
       ELSE
       LET r == processKeysForHostname(h, ActiveKeys(h, inp.snap), inp,
                                       N - s0.globalKeyCount, s0.currentCursor, s0.ctx)
           g == s0.globalKeyCount + r.processedKeys
       IN IF r.threw
          THEN HostLoop(i + 1, N, inp,
                   [s0 EXCEPT !.ctx = PushError(r.ctx, HostError("Error processing hostname", h))])
          ELSE IF g >= N
          THEN [s0 EXCEPT !.ctx = r.ctx, !.globalKeyCount = g,
                          !.nextCursor = FormatCursor(h, r.nextCursor)]
          ELSE HostLoop(i + 1, N, inp,
                   [s0 EXCEPT !.ctx = r.ctx, !.globalKeyCount = g,
                              !.currentCursor = NoCursor])

\* updateAccessKeys(isDryRun, startCursor, isDebug) with MAX_KEYS_PER_RUN = N
updateAccessKeys(N, kv, startCursor, inp) ==
    LET parsed == IF startCursor # NoCursor THEN ParseCursor(startCursor)
                  ELSE [startHostname |-> NoCursor, currentCursor |-> NoCursor]
    IN HostLoop(1, N, inp,
                [ctx |-> EmptyCtx(kv), globalKeyCount |-> 0,
                 startHostname |-> parsed.startHostname,
                 currentCursor |-> parsed.currentCursor,
                 nextCursor |-> NoCursor])

---------------------------------------------------------------------------
(* Revocation scanner (handlers/delete.js).                                *)
(* inp as above, with delFault: key name -> "none" or "fail", the outcome  *)
(* of the transport of the backend DELETE request.                         *)

EmptyDelCtx(kv, backend) ==
    [kv |-> kv,              \* ACCESS_KEYS_NAMESPACE
     backend |-> backend,    \* keys live on the backends
     processedKeys |-> <<>>, \* deleteResults.processedKeys: key and status
     errors |-> <<>>,        \* deleteResults.errors
     deleteCalls |-> <<>>,   \* keys a backend DELETE request was sent for
     puts |-> <<>>]          \* keys ACCESS_KEYS_NAMESPACE.put succeeded on

KeyInfo(key, status) == [key |-> key, status |-> status]

\* the comparison with >= in place of >
IdleAtLeast(lastSeen, t) ==
    IF lastSeen = Missing THEN FALSE
    ELSE IF lastSeen = Null THEN t - Epoch >= EXPIRATION_DAYS
    ELSE t - lastSeen >= EXPIRATION_DAYS

\* (now - new Date(keyData.lastSeen)) / day > EXPIRATION_DAYS; new Date(null)
\* is the epoch, new Date(undefined) is invalid and every comparison is false
IdleTooLong(lastSeen, t) ==
    IF lastSeen = Missing THEN FALSE
    ELSE IF lastSeen = Null THEN t - Epoch > EXPIRATION_DAYS
    ELSE t - lastSeen > EXPIRATION_DAYS

\* const shouldDelete = daysSinceLastSeen > EXPIRATION_DAYS && !keyData.currentlyConnected
ShouldDelete(keyData, t) ==
    IdleTooLong(keyData.lastSeen, t) /\ keyData.currentlyConnected # "true"

\* sendDeleteRequest: response.ok unless the transport fails or the backend
\* answers 404 for a key it does not hold
DeleteSucceeds(key, backend, delFault) == key \in backend /\ delFault = "none"

\* the deletion with the tombstone written whatever the backend answered
DeleteOnBackendAlwaysTombstone(key, keyData, t, inp, ctx) ==
    [ctx EXCEPT !.deleteCalls = Append(@, key),
                !.backend = IF DeleteSucceeds(key, ctx.backend, inp.delFault[key])
                            THEN @ \ {key} ELSE @,
                !.kv = [@ EXCEPT ![key] = [keyData EXCEPT !.deletionTime = t,
                                                          !.currentlyConnected = "null"]],
                !.puts = Append(@, key),
                !.processedKeys = Append(@, KeyInfo(key, "Deleted"))]

\* processKeyForDeletion, lines 211-260: the non-dry-run deletion
DeleteOnBackend(key, keyData, t, inp, ctx) ==
    IF inp.hostFault[HostOf(key)] = "noEndpoint"
    THEN [ctx EXCEPT !.processedKeys = Append(@, KeyInfo(key, "Error"))]
    ELSE
    LET sent == [ctx EXCEPT !.deleteCalls = Append(@, key)]
    IN IF ~DeleteSucceeds(key, ctx.backend, inp.delFault[key])
       THEN [sent EXCEPT !.processedKeys = Append(@, KeyInfo(key, "Error"))]
       ELSE LET gone == [sent EXCEPT !.backend = @ \ {key}]
                tomb == [keyData EXCEPT !.deletionTime = t,
                                        !.currentlyConnected = "null"]
            IN IF inp.keyFault[key] = "put"
               THEN [gone EXCEPT !.processedKeys = Append(@, KeyInfo(key, "Error"))]
               ELSE [gone EXCEPT !.kv = [@ EXCEPT ![key] = tomb],
                                 !.puts = Append(@, key),
                                 !.processedKeys = Append(@, KeyInfo(key, "Deleted"))]

\* processKeyForDeletion without the test of isDryRun at line 211
processKeyForDeletionNoDryRun(key, keyData, t, inp, ctx) ==
    IF ShouldDelete(keyData, t)
    THEN DeleteOnBackend(key, keyData, t, inp, ctx)
    ELSE [ctx EXCEPT !.processedKeys = Append(@, KeyInfo(key, "Not deleted"))]

\* processKeyForDeletion(keyName, keyData, isDryRun, deleteResults, s3Providers)
processKeyForDeletion(key, keyData, t, inp, ctx) ==
    IF ShouldDelete(keyData, t)
    THEN IF inp.isDryRun
         THEN [ctx EXCEPT !.processedKeys = Append(@, KeyInfo(key, "Would delete"))]
         ELSE DeleteOnBackend(key, keyData, t, inp, ctx)
    ELSE [ctx EXCEPT !.processedKeys = Append(@, KeyInfo(key, "Not deleted"))]

RECURSIVE DelPageLoop(_, _, _, _, _, _)
\* for (const key of listResult.keys) { try {...} catch {...}; if (processedCount >= MAX) return }
DelPageLoop(keys, i, N, t, inp, st) ==
    IF i > Len(keys) THEN st
    ELSE
    LET key == keys[i]
        st1 == IF inp.keyFault[key] = "get" \/ key \notin DOMAIN st.ctx.kv
               THEN [st EXCEPT !.ctx.errors = Append(@, KeyError(key))]
               ELSE [st EXCEPT
                        !.ctx = processKeyForDeletion(key, st.ctx.kv[key], t, inp, @),
                        !.processedCount = @ + 1]
    IN IF st1.processedCount >= N
       THEN [st1 EXCEPT !.returned = TRUE]
       ELSE DelPageLoop(keys, i + 1, N, t, inp, st1)

RECURSIVE DelListLoop(_, _, _, _, _, _)
\* do { list; for ...; cursor = listResult.cursor } while (cursor)
DelListLoop(h, N, t, inp, cursor, st) ==
    LET listResult == ListKeys(st.ctx.kv, h, cursor,
                               Min(N - st.processedCount, StorePageLimit), inp.badCursor)
    IN IF inp.hostFault[h] = "list" \/ ~listResult.ok
       THEN [st EXCEPT !.threw = TRUE]
       ELSE LET st1 == DelPageLoop(listResult.keys, 1, N, t, inp, st)
            IN IF st1.returned
               THEN [st1 EXCEPT !.nextCursor = FormatCursor(h, listResult.cursor)]
               ELSE IF listResult.cursor # NoCursor
               THEN DelListLoop(h, N, t, inp, listResult.cursor, st1)
               ELSE st1

\* processKeysForServer(targetServer, isDryRun, s3Providers): its own
\* deleteResults, starting from the stores in ctx
processKeysForServer(h, N, t, inp, ctx) ==
    DelListLoop(h, N, t, inp, NoCursor,
                [ctx |-> [ctx EXCEPT !.processedKeys = <<>>, !.errors = <<>>],
                 processedCount |-> 0, nextCursor |-> NoCursor,
                 returned |-> FALSE, threw |-> FALSE])

\* deleteResults.errors.push(...processedKeys.errors): processedKeys is an
\* Array, its property `errors` is undefined, and spreading undefined throws
SpreadOfErrorsThrows == TRUE

\* the stores and the calls made by one backend's scan are effects that stay
KeepEffects(ctx, r) ==
    [ctx EXCEPT !.kv = r.ctx.kv, !.backend = r.ctx.backend,
                !.deleteCalls = r.ctx.deleteCalls, !.puts = r.ctx.puts]

\* deleteResults.processedKeys.push(...processedKeys)
PushProcessed(ctx, r) == [ctx EXCEPT !.processedKeys = @ \o r.ctx.processedKeys]

\* deleteResults.errors.push(...processedKeys.errors), had it been iterable
PushErrors(ctx, r) == [ctx EXCEPT !.errors = @ \o r.ctx.errors]

RECURSIVE DelHostLoop(_, _, _, _, _)

\* the body of the try block of processAllKeys, r = processKeysForServer(...)
AfterServer(i, N, t, inp, s0, h, r) ==
    IF r.threw
    THEN DelHostLoop(i + 1, N, t, inp,
             [s0 EXCEPT !.ctx = PushError(KeepEffects(@, r),
                                          HostError("Error processing hostname", h))])
    ELSE IF SpreadOfErrorsThrows
    THEN DelHostLoop(i + 1, N, t, inp,
             [s0 EXCEPT !.ctx = PushError(PushProcessed(KeepEffects(@, r), r),
                                          HostError("Error processing hostname", h))])
    ELSE IF s0.globalKeyCount + Len(r.ctx.processedKeys) >= N
    THEN [s0 EXCEPT !.ctx = PushErrors(PushProcessed(KeepEffects(@, r), r), r),
                    !.globalKeyCount = @ + Len(r.ctx.processedKeys),
                    !.nextCursor = FormatCursor(h, r.nextCursor)]
    ELSE DelHostLoop(i + 1, N, t, inp,
             [s0 EXCEPT !.ctx = PushErrors(PushProcessed(KeepEffects(@, r), r), r),
                        !.globalKeyCount = @ + Len(r.ctx.processedKeys),
                        !.currentCursor = NoCursor])

\* for (const hostname of hostnames.keys) { ... } of processAllKeys
DelHostLoop(i, N, t, inp, st) ==
    IF i > Len(inp.hostnames) THEN st
    ELSE IF st.startHostname # NoCursor /\ HostStr(inp.hostnames[i]) # st.startHostname
    THEN DelHostLoop(i + 1, N, t, inp, st)
    ELSE AfterServer(i, N, t, inp, [st EXCEPT !.startHostname = NoCursor],
                     inp.hostnames[i],
                     processKeysForServer(inp.hostnames[i], N, t, inp, st.ctx))

\* processAllKeys(isDryRun, startCursor, s3Providers) with MAX_KEYS_PER_RUN = N
processAllKeys(N, kv, backend, t, startCursor, inp) ==
    LET parsed == IF startCursor # NoCursor THEN ParseCursor(startCursor)
                  ELSE [startHostname |-> NoCursor, currentCursor |-> NoCursor]
    IN DelHostLoop(1, N, t, inp,
                   [ctx |-> EmptyDelCtx(kv, backend), globalKeyCount |-> 0,
                    startHostname |-> parsed.startHostname,
                    currentCursor |-> parsed.currentCursor,
                    nextCursor |-> NoCursor])

---------------------------------------------------------------------------
(* The environment of an invocation: which operations fail.                *)

NoFault == [on |-> "none", host |-> "", id |-> 0, kind |-> "none"]
HostFault(h, k) == [on |-> "host", host |-> h, id |-> 0, kind |-> k]
KeyFault(key, k) == [on |-> "key", host |-> key[1], id |-> key[2], kind |-> k]

UpdateFaultPoints ==
    {NoFault}
    \cup {HostFault(h, k) : h \in HostSet, k \in {"noEndpoint", "badEndpoint", "oracle", "list"}}
    \cup {KeyFault(key, k) : key \in KeyNames, k \in {"get", "put"}}

DeleteFaultPoints ==
    {NoFault}
    \cup {HostFault(h, k) : h \in HostSet, k \in {"noEndpoint", "list"}}
    \cup {KeyFault(key, k) : key \in KeyNames, k \in {"get", "put", "del"}}

\* the kind of the first fault of fs (a tuple of fault points) that is about x
FaultOf(fs, on, h, id, kinds) ==
    LET hits == {i \in 1..Len(fs) : /\ fs[i].on = on /\ fs[i].host = h
                                    /\ fs[i].id = id /\ fs[i].kind \in kinds}
    IN IF hits = {} THEN "none"
       ELSE fs[CHOOSE i \in hits : \A j \in hits : i <= j].kind

Input(isDryRun, hostnames, snap, fs, badCursor) ==
    [isDryRun |-> isDryRun,
     hostnames |-> hostnames,
     snap |-> snap,
     hostFault |-> [h \in HostSet |->
         FaultOf(fs, "host", h, 0, {"noEndpoint", "badEndpoint", "oracle", "list"})],
     keyFault |-> [key \in KeyNames |-> FaultOf(fs, "key", key[1], key[2], {"get", "put"})],
     delFault |-> [key \in KeyNames |->
         IF FaultOf(fs, "key", key[1], key[2], {"del"}) = "del" THEN "fail" ELSE "none"],
     badCursor |-> badCursor]

BadCursorModes == {"throw", "ignore"}

---------------------------------------------------------------------------
(* State store and reports.                                                *)

EmptyFn == [x \in {} |-> 0]

\* STATE_NAMESPACE.get(key): null when there is no entry
StateGet(kv, key) == IF key \in DOMAIN kv THEN kv[key] ELSE NoCursor

StatePut(kv, key, v) == [k \in DOMAIN kv \cup {key} |-> IF k = key THEN v ELSE kv[k]]

StateDelete(kv, key) == [k \in DOMAIN kv \ {key} |-> kv[k]]

\* the lines after the scan returned, without the delete of an empty cursor
PersistCursorAlwaysPut(kv, key, isDryRun, nextCursor) ==
    IF isDryRun THEN kv ELSE StatePut(kv, key, nextCursor)

\* handleRequest, the lines after the scan returned: persist or clear the cursor
PersistCursor(kv, key, isDryRun, nextCursor) ==
    IF isDryRun THEN kv
    ELSE IF nextCursor # NoCursor THEN StatePut(kv, key, nextCursor)
    ELSE StateDelete(kv, key)

NoRun ==
    [kind |-> "none", isDryRun |-> FALSE, badCursor |-> "throw",
     startCursor |-> NoCursor, nextCursor |-> NoCursor,
     visited |-> <<>>, puts |-> <<>>, errors |-> <<>>,
     processedKeys |-> <<>>, deleteCalls |-> <<>>, lists |-> <<>>,
     updatedKeys |-> <<>>]

NoRace == [upc |-> "off", dpc |-> "off"]

---------------------------------------------------------------------------
(* Operations.                                                             *)

\* handlers/update.js handleRequest, scheduled or authorized, no X-Target-Key
Reconcile(isDryRun, fs, badCursor) ==
    LET startCursor == StateGet(stateKV, UPDATE_CURSOR_KEY)
    IN \E r \in {updateAccessKeys(maxKeys, accessKeys, startCursor,
                              Input(isDryRun, endpoints, Snapshot(oracle, now), fs, badCursor))} :
       /\ accessKeys' = r.ctx.kv
       /\ stateKV' = PersistCursor(stateKV, UPDATE_CURSOR_KEY, isDryRun, r.nextCursor)
       /\ lastRun' = [NoRun EXCEPT
                        !.kind = "update",
                        !.isDryRun = isDryRun, !.badCursor = badCursor,
                        !.startCursor = startCursor, !.nextCursor = r.nextCursor,
                        !.visited = r.ctx.visited, !.puts = r.ctx.puts,
                        !.errors = r.ctx.errors, !.lists = r.ctx.lists,
                        !.updatedKeys = r.ctx.updatedKeys]
       /\ UNCHANGED <<oracle, backendKeys, endpoints, now, maxKeys>>

\* handlers/delete.js handleRequest, scheduled or authorized, no target header
Revoke(isDryRun, fs, badCursor) ==
    LET startCursor == StateGet(stateKV, DELETE_CURSOR_KEY)
    IN \E r \in {processAllKeys(maxKeys, accessKeys, backendKeys, now, startCursor,
                            Input(isDryRun, endpoints, Snapshot(oracle, now), fs, badCursor))} :
       /\ accessKeys' = r.ctx.kv
       /\ backendKeys' = r.ctx.backend
       /\ stateKV' = PersistCursor(stateKV, DELETE_CURSOR_KEY, isDryRun, r.nextCursor)
       /\ lastRun' = [NoRun EXCEPT
                        !.kind = "delete",
                        !.isDryRun = isDryRun, !.badCursor = badCursor,
                        !.startCursor = startCursor, !.nextCursor = r.nextCursor,
                        !.puts = r.ctx.puts, !.errors = r.ctx.errors,
                        !.processedKeys = r.ctx.processedKeys,
                        !.deleteCalls = r.ctx.deleteCalls]
       /\ UNCHANGED <<oracle, endpoints, now, maxKeys>>

\* the id the backend gives its next access key
NextId(h) == Len(KeysOf(accessKeys, h)) + 1

\* handlers/get.js handleRequest: a credential is created on backend h and
\* its record written
Issue(h) ==
    /\ Cardinality(DOMAIN accessKeys) < MaxIssued
    /\ NextId(h) <= MaxKeysPerHost
    /\ LET key == <<h, NextId(h)>>
       IN /\ accessKeys' = [k \in DOMAIN accessKeys \cup {key} |->
                               IF k = key THEN FreshRecord(now) ELSE accessKeys[k]]
          /\ backendKeys' = backendKeys \cup {key}
    /\ lastRun' = [NoRun EXCEPT !.kind = "issue"]
    /\ UNCHANGED <<oracle, endpoints, stateKV, now, maxKeys>>

\* the first version of the issuance path: the record holds creationTime only
IssueLegacy(h) ==
    /\ Cardinality(DOMAIN accessKeys) < MaxIssued
    /\ NextId(h) <= MaxKeysPerHost
    /\ LET key == <<h, NextId(h)>>
       IN /\ accessKeys' = [k \in DOMAIN accessKeys \cup {key} |->
                               IF k = key THEN LegacyRecord(now) ELSE accessKeys[k]]
          /\ backendKeys' = backendKeys \cup {key}
    /\ lastRun' = [NoRun EXCEPT !.kind = "issue"]
    /\ UNCHANGED <<oracle, endpoints, stateKV, now, maxKeys>>

\* the Usage Oracle comes to report e for an existing credential
Observe(key, e) ==
    /\ key \in DOMAIN accessKeys
    /\ oracle[key] # e
    /\ oracle' = [oracle EXCEPT ![key] = e]
    /\ lastRun' = [NoRun EXCEPT !.kind = "observe"]
    /\ UNCHANGED <<accessKeys, backendKeys, endpoints, stateKV, now, maxKeys>>

\* time passes: one expiration period
Tick ==
    /\ now < NowStart + MaxTicks * EXPIRATION_DAYS
    /\ now' = now + EXPIRATION_DAYS
    /\ lastRun' = [NoRun EXCEPT !.kind = "tick"]
    /\ UNCHANGED <<accessKeys, oracle, backendKeys, endpoints, stateKV, maxKeys>>

\* the store's answer to a cursor it never issued matters only to an
\* invocation that starts from a persisted cursor
BadModesFor(cursorKey) ==
    IF StateGet(stateKV, cursorKey) = NoCursor THEN {"throw"} ELSE BadCursorModes

\* the operations that can fail in the present state
FaultsNow(points) ==
    [1..MaxFaults ->
        {f \in points :
            /\ f.on = "key" => <<f.host, f.id>> \in DOMAIN accessKeys
            /\ f.on = "host" => \E i \in 1..Len(endpoints) : endpoints[i] = f.host}]

Init ==
    /\ accessKeys = EmptyFn
    /\ oracle = [key \in KeyNames |-> NoSample]
    /\ backendKeys = {}
    /\ endpoints = <<Hostnames[1]>>
    /\ stateKV = EmptyFn
    /\ now = NowStart
    /\ maxKeys \in 1..MaxBudget
    /\ lastRun = NoRun
    /\ passLog = <<>>
    /\ race = NoRace

Next ==
    \/ \E i \in 1..Len(endpoints) : Issue(endpoints[i]) /\ UNCHANGED <<passLog, race>>
    \/ \E i \in 1..Len(endpoints) : IssueLegacy(endpoints[i]) /\ UNCHANGED <<passLog, race>>
    \/ \E key \in KeyNames, e \in Samples : Observe(key, e) /\ UNCHANGED <<passLog, race>>
    \/ Tick /\ UNCHANGED <<passLog, race>>
    \/ \E dry \in BOOLEAN, fs \in FaultsNow(UpdateFaultPoints),
          bc \in BadModesFor(UPDATE_CURSOR_KEY) :
          Reconcile(dry, fs, bc) /\ UNCHANGED <<passLog, race>>
    \/ \E dry \in BOOLEAN, fs \in FaultsNow(DeleteFaultPoints),
          bc \in BadModesFor(DELETE_CURSOR_KEY) :
          Revoke(dry, fs, bc) /\ UNCHANGED <<passLog, race>>

Spec == Init /\ [][Next]_vars

---------------------------------------------------------------------------
(* Properties of the lifecycle (Spec).                                     *)

Range(f) == {f[i] : i \in DOMAIN f}

Tombstoned(rec) == rec.deletionTime >= 0

HasLastSeen(rec) == rec.lastSeen >= 0

\* the step is an invocation of the reconciliation / revocation handler
ReconcileStep == lastRun'.kind = "update"
RevokeStep == lastRun'.kind = "delete"

\* the status the last revocation pass reported for key
StatusOf(run, key) ==
    {run.processedKeys[i].status : i \in {j \in DOMAIN run.processedKeys :
                                            run.processedKeys[j].key = key}}

\* an invocation with no failing operation
NoFaults == [i \in 1..MaxFaults |-> NoFault]

\* C4: once a credential's deletionTime is set, no later pass changes or
\* clears it, and a later revocation pass sends no further backend DELETE
\* for the tombstoned credential.
C4_DeletionTimeSetOnce ==
    [][\A key \in DOMAIN accessKeys :
          Tombstoned(accessKeys[key]) =>
             /\ accessKeys'[key].deletionTime = accessKeys[key].deletionTime
             /\ RevokeStep => key \notin Range(lastRun'.deleteCalls)]_vars

\* tombstoned records, some lacking optional fields
TombstoneShapes ==
    {Rec(NowStart, NowStart, l, cc) :
       l \in {Missing, Null, NowStart - 1}, cc \in {"missing", "null", "true", "false"}}

\* the record processKey leaves when the store holds rec under key, with
\* the usage snapshot of the current state
ProcessedAlone(key, rec) ==
    processKey(key, ActiveKeys(HostOf(key), Snapshot(oracle, now)), FALSE, "none",
               EmptyCtx(key :> rec)).kv[key]

\* C5: a reconciliation pass leaves currentlyConnected and lastSeen of
\* every tombstoned credential as they were; and processKey, with the
\* snapshot of the pass, leaves deletionTime, currentlyConnected and
\* lastSeen of any tombstoned record as they were, an absent optional
\* field staying absent (undefined or null).
C5_TombstoneImmutable ==
    [][ReconcileStep =>
          \A key \in DOMAIN accessKeys :
             /\ Tombstoned(accessKeys[key]) =>
                   /\ accessKeys'[key].currentlyConnected = accessKeys[key].currentlyConnected
                   /\ accessKeys'[key].lastSeen = accessKeys[key].lastSeen
             /\ \A rec \in TombstoneShapes :
                   /\ ProcessedAlone(key, rec).deletionTime = rec.deletionTime
                   /\ Coalesce(ProcessedAlone(key, rec).lastSeen) = Coalesce(rec.lastSeen)
                   /\ CoalesceCC(ProcessedAlone(key, rec).currentlyConnected)
                         = CoalesceCC(rec.currentlyConnected)]_vars

\* a non-dry-run reconciliation pass has visited a tombstoned credential
C5_Witness ==
    /\ lastRun.kind = "update" /\ ~lastRun.isDryRun
    /\ \E key \in DOMAIN accessKeys :
          Tombstoned(accessKeys[key]) /\ key \in Range(lastRun.visited)

\* C6: the stored lastSeen of a credential never decreases and, once set,
\* is never reset to absent.
C6_LastSeenMonotone ==
    [][\A key \in DOMAIN accessKeys :
          HasLastSeen(accessKeys[key]) =>
             accessKeys'[key].lastSeen >= accessKeys[key].lastSeen]_vars

\* C7: after a full non-dry-run reconciliation pass, a second full pass
\* over the unchanged population and snapshot writes no record.
C7_IdempotentRescan ==
    (/\ lastRun.kind = "update" /\ ~lastRun.isDryRun /\ lastRun.errors = <<>>
     /\ lastRun.startCursor = NoCursor /\ lastRun.nextCursor = NoCursor)
    => updateAccessKeys(maxKeys, accessKeys, NoCursor,
                        Input(FALSE, endpoints, Snapshot(oracle, now), NoFaults, "throw")
                       ).ctx.puts = <<>>

\* C8: a revocation pass sends no backend DELETE for, and writes no
\* tombstone on, a credential that has no lastSeen (null or missing).
C8_NoLastSeenNotRevoked ==
    [][RevokeStep =>
          \A key \in DOMAIN accessKeys :
             ~HasLastSeen(accessKeys[key]) =>
                /\ key \notin Range(lastRun'.deleteCalls)
                /\ accessKeys'[key] = accessKeys[key]]_vars

\* shouldDelete as the specification states it, for a record with lastSeen
Policy(rec, t) == t - rec.lastSeen > EXPIRATION_DAYS /\ rec.currentlyConnected # "true"

\* the pass deleted key: backend DELETE sent and tombstone written
DeletedBy(run, key) == key \in Range(run.deleteCalls) /\ key \in Range(run.puts)

\* C9 as stated: a non-dry-run revocation pass deletes an evaluated
\* credential (with a lastSeen) if and only if it is idle for more than
\* EXPIRATION_DAYS and not currently connected.
C9_PolicyIff ==
    [][(RevokeStep /\ ~lastRun'.isDryRun) =>
          \A key \in DOMAIN accessKeys :
             (HasLastSeen(accessKeys[key]) /\ StatusOf(lastRun', key) # {}) =>
                (DeletedBy(lastRun', key) <=> Policy(accessKeys[key], now))]_vars

\* C9 amended: an evaluated credential with a lastSeen is deleted only if
\* the policy holds; when the policy holds it is deleted or, when the
\* endpoint lookup, the backend DELETE or the tombstone write failed,
\* reported with status Error; when the policy does not hold no backend
\* DELETE is sent, the record is untouched and the status is Not deleted.
C9_PolicyUnlessFailure ==
    [][(RevokeStep /\ ~lastRun'.isDryRun) =>
          \A key \in DOMAIN accessKeys :
             (HasLastSeen(accessKeys[key]) /\ StatusOf(lastRun', key) # {}) =>
                IF Policy(accessKeys[key], now)
                THEN \/ /\ DeletedBy(lastRun', key)
                        /\ StatusOf(lastRun', key) = {"Deleted"}
                        /\ accessKeys'[key].deletionTime = now
                        /\ key \notin backendKeys'
                     \/ /\ ~DeletedBy(lastRun', key)
                        /\ StatusOf(lastRun', key) = {"Error"}
                        /\ accessKeys'[key] = accessKeys[key]
                ELSE /\ key \notin Range(lastRun'.deleteCalls)
                     /\ StatusOf(lastRun', key) = {"Not deleted"}
                     /\ accessKeys'[key] = accessKeys[key]
                     /\ (key \in backendKeys <=> key \in backendKeys')]_vars

\* a credential idle one day more than EXPIRATION_DAYS has been deleted
C9_Witness ==
    /\ lastRun.kind = "delete" /\ ~lastRun.isDryRun
    /\ \E key \in DOMAIN accessKeys :
          /\ StatusOf(lastRun, key) = {"Deleted"}
          /\ HasLastSeen(accessKeys[key])
          /\ accessKeys[key].deletionTime = now
          /\ now - accessKeys[key].lastSeen = EXPIRATION_DAYS + 1

\* the backend DELETE of key was sent in this step and did not succeed
DeleteFailed(key) ==
    /\ key \in Range(lastRun'.deleteCalls)
    /\ ~(key \in backendKeys /\ key \notin backendKeys')

\* the evaluation of key by a later non-dry-run revocation pass, on the
\* state after this step
NextEvaluation(key) ==
    processKeyForDeletion(key, accessKeys'[key], now',
                          Input(FALSE, endpoints', Snapshot(oracle', now'), NoFaults, "throw"),
                          EmptyDelCtx(accessKeys', backendKeys'))

---------------------------------------------------------------------------
(* Chained reconciliation invocations over a static population (SpecScan). *)

\* counts[h] credentials on backend h, as issued and never yet reconciled
Population(counts) ==
    [key \in {k \in KeyNames : AccessKeyId(k) <= counts[HostOf(k)]} |-> FreshRecord(NowStart)]

InitScan ==
    /\ \E counts \in [HostSet -> 0..MaxKeysPerHost] : accessKeys = Population(counts)
    /\ backendKeys = DOMAIN accessKeys
    /\ endpoints = Hostnames
    /\ oracle = [key \in KeyNames |-> NoSample]
    /\ stateKV = EmptyFn
    /\ now = NowStart
    /\ maxKeys \in 1..MaxBudget
    /\ lastRun = NoRun
    /\ passLog = <<>>
    /\ race = NoRace

\* one non-dry-run invocation of the chain: it resumes from the stored
\* cursor; passLog is what the chain has processed since it last started
\* from the beginning
Scan(badCursor) ==
    /\ Len(passLog) <= MaxLog
    /\ Reconcile(FALSE, NoFaults, badCursor)
    /\ passLog' = (IF lastRun'.startCursor = NoCursor THEN <<>> ELSE passLog)
                  \o lastRun'.visited
    /\ UNCHANGED race

NextScan == \E badCursor \in BadModesFor(UPDATE_CURSOR_KEY) : Scan(badCursor)

SpecScan == InitScan /\ [][NextScan]_vars

\* a budget no pass over the population can use up
UnboundedBudget == Cardinality(KeyNames) + 1

\* what the last invocation would have processed from its start cursor
\* with an unbounded budget
RestOfScan ==
    updateAccessKeys(UnboundedBudget, accessKeys, lastRun.startCursor,
                     Input(FALSE, endpoints, Snapshot(oracle, now), NoFaults,
                           lastRun.badCursor)).ctx.visited

\* what a single pass from the beginning with an unbounded budget processes
FullPass ==
    updateAccessKeys(UnboundedBudget, accessKeys, NoCursor,
                     Input(FALSE, endpoints, Snapshot(oracle, now), NoFaults,
                           "throw")).ctx.visited

IsPrefix(s, t) == Len(s) <= Len(t) /\ SubSeq(t, 1, Len(s)) = s

\* C1: an invocation with budget maxKeys processes at most maxKeys
\* credentials, and its returned cursor is non-empty exactly when a
\* credential remained unprocessed when it stopped.
C1_BudgetRespect ==
    lastRun.kind = "update" =>
       /\ Len(lastRun.visited) <= maxKeys
       /\ (lastRun.nextCursor # NoCursor) <=> (Len(RestOfScan) > Len(lastRun.visited))

\* C2: the invocations of a chain, each resumed from the cursor the one
\* before returned, process the credentials of a single unbounded pass in
\* its order, each once, and all of them when the chain ends with an empty
\* cursor.
C2_ResumeCorrect ==
    lastRun.kind = "update" =>
       /\ IsPrefix(passLog, FullPass)
       /\ lastRun.nextCursor = NoCursor => passLog = FullPass

---------------------------------------------------------------------------
(* processKey and processKeyForDeletion racing on one credential          *)
(* (SpecRace): each reads the record, then writes what it computed from    *)
(* that read; the store operations of the two interleave.                  *)

RaceKey == <<Hostnames[1], 1>>

\* records the credential can hold before the race: as issued, or as a
\* reconciliation pass left it
RaceRecords ==
    {FreshRecord(NowStart - EXPIRATION_DAYS - 2)}
    \cup {Rec(NowStart - EXPIRATION_DAYS - 2, Null, l, cc) :
            l \in {NowStart - EXPIRATION_DAYS - 1, NowStart - EXPIRATION_DAYS, NowStart - 1},
            cc \in {"true", "false"}}

RaceInput == Input(FALSE, endpoints, Snapshot(oracle, now), NoFaults, "throw")

\* processKey of update.js on the record it read (line 205), and the record
\* its put stores, if it puts
UpdateOn(rec) ==
    processKey(RaceKey, ActiveKeys(HostOf(RaceKey), RaceInput.snap), FALSE, "none",
               EmptyCtx(RaceKey :> rec))

\* processKeyForDeletion on the record processKeysForServer read (line 128)
DeleteOn(rec, backend) ==
    processKeyForDeletion(RaceKey, rec, now, RaceInput,
                          EmptyDelCtx(RaceKey :> rec, backend))

InitRace ==
    /\ \E rec \in RaceRecords :
          /\ accessKeys = RaceKey :> rec
          /\ race = [upc |-> "start", dpc |-> "start", ukd |-> rec, dkd |-> rec,
                     init |-> rec]
    /\ backendKeys = {RaceKey}
    /\ endpoints = <<Hostnames[1]>>
    /\ \E e \in Samples : oracle = [key \in KeyNames |-> IF key = RaceKey THEN e ELSE NoSample]
    /\ stateKV = EmptyFn
    /\ now = NowStart
    /\ maxKeys = MaxBudget
    /\ lastRun = NoRun
    /\ passLog = <<>>

\* update.js line 205: ACCESS_KEYS_NAMESPACE.get
URead ==
    /\ race.upc = "start"
    /\ race' = [race EXCEPT !.upc = "got", !.ukd = accessKeys[RaceKey]]
    /\ UNCHANGED <<accessKeys, backendKeys>>
    /\ UNCHANGED <<oracle, endpoints, stateKV, now, maxKeys, lastRun, passLog>>

\* update.js lines 209-286: compute from the record read, put if changed
UWrite ==
    /\ race.upc = "got"
    /\ race' = [race EXCEPT !.upc = "done"]
    /\ accessKeys' = IF UpdateOn(race.ukd).puts # <<>>
                     THEN RaceKey :> UpdateOn(race.ukd).kv[RaceKey]
                     ELSE accessKeys
    /\ UNCHANGED backendKeys
    /\ UNCHANGED <<oracle, endpoints, stateKV, now, maxKeys, lastRun, passLog>>

\* delete handler line 128: ACCESS_KEYS_NAMESPACE.get
DRead ==
    /\ race.dpc = "start"
    /\ race' = [race EXCEPT !.dpc = "got", !.dkd = accessKeys[RaceKey]]
    /\ UNCHANGED <<accessKeys, backendKeys>>
    /\ UNCHANGED <<oracle, endpoints, stateKV, now, maxKeys, lastRun, passLog>>

\* delete handler lines 189-231: decide, send the backend DELETE
DDelete ==
    /\ race.dpc = "got"
    /\ backendKeys' = DeleteOn(race.dkd, backendKeys).backend
    /\ race' = IF DeleteOn(race.dkd, backendKeys).puts # <<>>
               THEN [race EXCEPT !.dpc = "put",
                                 !.dkd = DeleteOn(race.dkd, backendKeys).kv[RaceKey]]
               ELSE [race EXCEPT !.dpc = "done"]
    /\ UNCHANGED accessKeys
    /\ UNCHANGED <<oracle, endpoints, stateKV, now, maxKeys, lastRun, passLog>>

\* delete handler lines 247-249: put the tombstone
DWrite ==
    /\ race.dpc = "put"
    /\ accessKeys' = RaceKey :> race.dkd
    /\ race' = [race EXCEPT !.dpc = "done"]
    /\ UNCHANGED backendKeys
    /\ UNCHANGED <<oracle, endpoints, stateKV, now, maxKeys, lastRun, passLog>>

NextRace ==
    \/ URead
    \/ UWrite
    \/ DRead
    \/ DDelete
    \/ DWrite

SpecRace == InitRace /\ [][NextRace]_vars

\* the stored record after processKey, then processKeyForDeletion
UpdateThenDelete(rec) ==
    DeleteOn(UpdateOn(rec).kv[RaceKey], {RaceKey}).kv[RaceKey]

\* the stored record after processKeyForDeletion, then processKey
DeleteThenUpdate(rec) ==
    UpdateOn(DeleteOn(rec, {RaceKey}).kv[RaceKey]).kv[RaceKey]

\* C3: when processKey and processKeyForDeletion have both run on a
\* credential, in any interleaving, the stored record is the one some
\* sequential order of the two produces, and a credential revocation has
\* removed from its backend holds a tombstone.
C3_TombstoneTerminal ==
    /\ (race.upc = "done" /\ race.dpc = "done") =>
          accessKeys[RaceKey] \in {UpdateThenDelete(race.init), DeleteThenUpdate(race.init)}
    /\ (race.dpc = "done" /\ RaceKey \notin backendKeys) =>
          Tombstoned(accessKeys[RaceKey])

---------------------------------------------------------------------------
(* Revocation of a credential that is already absent on its backend.       *)

\* an invocation in which no operation fails, with the present snapshot
QuietInput(isDryRun) ==
    Input(isDryRun, endpoints, Snapshot(oracle, now), NoFaults, "throw")

\* what a non-dry-run revocation pass in which no operation fails does when
\* it evaluates key in the present state
EvaluateNow(key) ==
    processKeyForDeletion(key, accessKeys[key], now, QuietInput(FALSE),
                          EmptyDelCtx(accessKeys, backendKeys))

\* C11: when a live credential that the policy selects is absent on its
\* backend (the backend answers not-found), a revocation pass in which
\* nothing else fails reports it as deleted, not as an error, and writes
\* its tombstone.
C11_AbsentOnBackendTombstoned ==
    \A key \in DOMAIN accessKeys :
       (/\ key \notin backendKeys
        /\ ~Tombstoned(accessKeys[key])
        /\ ShouldDelete(accessKeys[key], now))
       => /\ Tombstoned(EvaluateNow(key).kv[key])
          /\ \A i \in DOMAIN EvaluateNow(key).processedKeys :
                EvaluateNow(key).processedKeys[i].status # "Error"

---------------------------------------------------------------------------
(* Repeated cursor-driven revocation invocations over a static population  *)
(* in which no operation fails (SpecRevScan).                              *)

\* a credential idle for more than EXPIRATION_DAYS and not connected
IdleRecord == Rec(NowStart - EXPIRATION_DAYS - 2, Null, NowStart - EXPIRATION_DAYS - 1, "false")

\* a credential seen yesterday
RecentRecord == Rec(NowStart - EXPIRATION_DAYS - 2, Null, NowStart - 1, "false")

InitRevScan ==
    /\ \E counts \in [HostSet -> 0..MaxKeysPerHost], rec \in {IdleRecord, RecentRecord} :
          accessKeys = [key \in DOMAIN Population(counts) |-> rec]
    /\ backendKeys = DOMAIN accessKeys
    /\ endpoints = Hostnames
    /\ oracle = [key \in KeyNames |-> NoSample]
    /\ stateKV = EmptyFn
    /\ now = NowStart
    /\ maxKeys \in 1..MaxBudget
    /\ lastRun = NoRun
    /\ passLog = <<>>
    /\ race = [round |-> 0]

RECURSIVE AddNew(_, _)
\* log, followed by the keys of the entries of infos that it does not hold yet
AddNew(log, infos) ==
    IF infos = <<>> THEN log
    ELSE AddNew(IF Head(infos).key \in Range(log) THEN log ELSE Append(log, Head(infos).key),
                Tail(infos))

\* one non-dry-run invocation: it loads the persisted cursor and persists
\* the returned one; passLog collects the credentials evaluated so far
RevScan(badCursor) ==
    /\ race.round = 0
    /\ Revoke(FALSE, NoFaults, badCursor)
    /\ passLog' = AddNew(passLog, lastRun'.processedKeys)
    /\ race' = [round |-> 1]

\* the invocation has answered; the worker is ready for the next request
Answered ==
    /\ race.round = 1
    /\ race' = [round |-> 0]
    /\ UNCHANGED <<accessKeys, oracle, backendKeys, endpoints, stateKV, now, maxKeys,
                   lastRun, passLog>>

NextRevScan ==
    \/ \E badCursor \in BadModesFor(DELETE_CURSOR_KEY) : RevScan(badCursor)
    \/ Answered

SpecRevScan == InitRevScan /\ [][NextRevScan]_vars

\* every invocation comes to its end
SpecRevScanFair == SpecRevScan /\ WF_vars(Answered)

\* invocations keep being made
RepeatedInvocations == []<>(race.round = 1)

\* C12: an invocation with budget maxKeys evaluates at most maxKeys
\* credentials over all backends, and when it has used its budget up it
\* returns a cursor that names the backend it stopped in.
C12_RevocationBudget ==
    lastRun.kind = "delete" =>
       /\ Len(lastRun.processedKeys) <= maxKeys
       /\ Len(lastRun.processedKeys) >= maxKeys =>
             /\ lastRun.nextCursor # NoCursor
             /\ ParseCursor(lastRun.nextCursor).startHostname
                  = HostStr(HostOf(lastRun.processedKeys[Len(lastRun.processedKeys)].key))

\* C13: under repeated invocations every credential is eventually
\* evaluated, and one that is idle past the threshold and not connected is
\* eventually tombstoned.
C13_RevocationCoverage ==
    RepeatedInvocations =>
       \A key \in KeyNames :
          <>(key \in DOMAIN accessKeys =>
                /\ key \in Range(passLog)
                /\ accessKeys[key].lastSeen = IdleRecord.lastSeen
                      => Tombstoned(accessKeys[key]))

---------------------------------------------------------------------------
(* Reconciliation invocations over a static population in which one        *)
(* operation of the invocation may fail (SpecResume).                      *)

\* one non-dry-run invocation of handlers/update.js; it resumes from the
\* stored cursor and stores the cursor it returns
Resume(fs, badCursor) ==
    /\ Reconcile(FALSE, fs, badCursor)
    /\ UNCHANGED <<passLog, race>>

NextResume ==
    \E fs \in FaultsNow(UpdateFaultPoints), badCursor \in BadModesFor(UPDATE_CURSOR_KEY) :
       Resume(fs, badCursor)

SpecResume == InitScan /\ [][NextResume]_vars

\* position of backend h in the listing of API_ENDPOINTS_NAMESPACE
HostIndex(h) == CHOOSE i \in 1..Len(endpoints) : endpoints[i] = h

\* the i-th list call of the invocation is the first one for its backend
FirstListCall(lists, i) == \A j \in 1..(i - 1) : lists[j].host # lists[i].host

\* C14: in an invocation resumed from "<backendId>:<token>" no backend
\* before backendId is listed, the first list call of backendId uses the
\* token, and the first list call of every other backend uses no cursor.
C14_LaterBackendsStartFresh ==
    (lastRun.kind = "update" /\ lastRun.startCursor # NoCursor) =>
       \A i \in DOMAIN lastRun.lists :
          /\ \A k \in 1..Len(endpoints) :
                HostStr(endpoints[k]) = ParseCursor(lastRun.startCursor).startHostname
                   => HostIndex(lastRun.lists[i].host) >= k
          /\ FirstListCall(lastRun.lists, i) =>
                lastRun.lists[i].cursor =
                   IF HostStr(lastRun.lists[i].host)
                         = ParseCursor(lastRun.startCursor).startHostname
                   THEN ParseCursor(lastRun.startCursor).currentCursor
                   ELSE NoCursor

---------------------------------------------------------------------------
(* The persisted cursors (Spec).                                           *)

\* after the step, the state store holds cursor c under `own` (no entry
\* when c is empty) and what it held before under `other`
Persisted(own, other, c) ==
    /\ StateGet(stateKV', own) = c
    /\ c = NoCursor => own \notin DOMAIN stateKV'
    /\ other \in DOMAIN stateKV' <=> other \in DOMAIN stateKV
    /\ StateGet(stateKV', other) = StateGet(stateKV, other)

\* C15: a non-dry-run invocation leaves under its own key the cursor it
\* returned, or no entry when that cursor is empty; it leaves the other
\* scan's key alone, and no empty cursor is ever stored.
C15_CursorPersistence ==
    [][/\ (ReconcileStep /\ ~lastRun'.isDryRun)
             => Persisted(UPDATE_CURSOR_KEY, DELETE_CURSOR_KEY, lastRun'.nextCursor)
       /\ (RevokeStep /\ ~lastRun'.isDryRun)
             => Persisted(DELETE_CURSOR_KEY, UPDATE_CURSOR_KEY, lastRun'.nextCursor)
       /\ \A k \in DOMAIN stateKV' : stateKV'[k] # NoCursor]_vars

\* a revocation invocation has returned an empty cursor while the
\* reconciliation cursor was stored
C15_Witness ==
    /\ lastRun.kind = "delete" /\ ~lastRun.isDryRun
    /\ lastRun.nextCursor = NoCursor
    /\ DOMAIN stateKV = {UPDATE_CURSOR_KEY}

---------------------------------------------------------------------------
(* Reconciliation invocations that may be killed while they scan           *)
(* (SpecKill).  `race` holds the credential store as it was when the last  *)
(* invocation started.                                                     *)

\* credentials of backend h as written by version kind[h] of the issuance path
KillPopulation(counts, legacy) ==
    [key \in {k \in KeyNames : AccessKeyId(k) <= counts[HostOf(k)]} |->
        IF legacy[HostOf(key)] THEN LegacyRecord(NowStart) ELSE FreshRecord(NowStart)]

InitKill ==
    /\ \E counts \in [HostSet -> 0..MaxKeysPerHost], legacy \in [HostSet -> BOOLEAN] :
          accessKeys = KillPopulation(counts, legacy)
    /\ backendKeys = DOMAIN accessKeys
    /\ endpoints = Hostnames
    /\ \E e \in {NoSample, Sample(1, 0)} : oracle = [key \in KeyNames |-> e]
    /\ stateKV = EmptyFn
    /\ now = NowStart
    /\ maxKeys \in 1..MaxBudget
    /\ lastRun = NoRun
    /\ passLog = <<>>
    /\ race = [before |-> accessKeys]

\* the credential store after the first j puts of an invocation that would
\* have left final and made the puts `puts`
AfterPuts(kv, final, puts, j) ==
    [key \in DOMAIN kv |->
        IF \E i \in 1..j : puts[i] = key THEN final[key] ELSE kv[key]]

\* the stores when the invocation is killed after its first j puts, with
\* the cursor already written for the scan result r
KilledStoresCursorFirst(kv, state, r, j) ==
    [kv |-> AfterPuts(kv, r.ctx.kv, r.ctx.puts, j),
     state |-> PersistCursor(state, UPDATE_CURSOR_KEY, FALSE, r.nextCursor)]

\* the stores when the invocation is killed after its first j puts:
\* handleRequest touches STATE_NAMESPACE only after updateAccessKeys returned
KilledStores(kv, state, r, j) ==
    [kv |-> AfterPuts(kv, r.ctx.kv, r.ctx.puts, j), state |-> state]

\* an invocation that runs to its end
Completed(badCursor) ==
    /\ Reconcile(FALSE, NoFaults, badCursor)
    /\ race' = [before |-> accessKeys]
    /\ UNCHANGED passLog

\* an invocation killed inside updateAccessKeys after its first j puts
Killed(badCursor) ==
    LET startCursor == StateGet(stateKV, UPDATE_CURSOR_KEY)
    IN \E r \in {updateAccessKeys(maxKeys, accessKeys, startCursor,
                     Input(FALSE, endpoints, Snapshot(oracle, now), NoFaults, badCursor))} :
       \E j \in 0..Len(r.ctx.puts) :
       \E k \in {KilledStores(accessKeys, stateKV, r, j)} :
          /\ accessKeys' = k.kv
          /\ stateKV' = k.state
          /\ lastRun' = [NoRun EXCEPT
                           !.kind = "killed", !.badCursor = badCursor,
                           !.startCursor = startCursor,
                           !.puts = SubSeq(r.ctx.puts, 1, j)]
          /\ race' = [before |-> accessKeys]
          /\ UNCHANGED <<oracle, backendKeys, endpoints, now, maxKeys, passLog>>

NextKill ==
    \/ \E badCursor \in BadModesFor(UPDATE_CURSOR_KEY) : Completed(badCursor)
    \/ \E badCursor \in BadModesFor(UPDATE_CURSOR_KEY) : Killed(badCursor)

SpecKill == InitKill /\ [][NextKill]_vars

\* the credential store after one uninterrupted invocation that starts on
\* kv from the cursor the last invocation started from
RunFrom(kv) ==
    updateAccessKeys(maxKeys, kv, lastRun.startCursor,
                     Input(FALSE, endpoints, Snapshot(oracle, now), NoFaults,
                           lastRun.badCursor)).ctx.kv

\* record of the store has every field
Complete(rec) ==
    /\ rec.deletionTime # Missing /\ rec.lastSeen # Missing
    /\ rec.currentlyConnected # "missing"

CursorKeptByKill ==
    lastRun.kind = "killed" =>
       StateGet(stateKV, UPDATE_CURSOR_KEY) = lastRun.startCursor

\* C16: a killed invocation leaves the persisted cursor as it was at its
\* start, and running again from that cursor with the same snapshot leaves
\* every record as one uninterrupted invocation would have left it.
C16_KillSafety ==
    /\ CursorKeptByKill
    /\ lastRun.kind = "killed" => RunFrom(accessKeys) = RunFrom(race.before)

\* C16, for the records that had every field when the killed invocation
\* started: a killed invocation leaves the persisted cursor as it was, and
\* running again from it leaves those records as one uninterrupted
\* invocation would have left them.
C16_KillSafetyComplete ==
    /\ CursorKeptByKill
    /\ lastRun.kind = "killed" =>
          \A key \in DOMAIN race.before :
             Complete(race.before[key]) =>
                RunFrom(accessKeys)[key] = RunFrom(race.before)[key]

\* an invocation resumed from a stored cursor was killed after it had
\* written a record that had every field
C16_Witness ==
    /\ lastRun.kind = "killed"
    /\ lastRun.startCursor # NoCursor
    /\ \E i \in DOMAIN lastRun.puts :
          /\ Complete(race.before[lastRun.puts[i]])
          /\ accessKeys[lastRun.puts[i]] # race.before[lastRun.puts[i]]

---------------------------------------------------------------------------
(* Dry runs (Spec).                                                        *)

DryStep == (ReconcileStep \/ RevokeStep) /\ lastRun'.isDryRun

\* a non-dry-run processKey of the key on the present store and usage
\* snapshot writes its record
WouldUpdate(key) ==
    processKey(key, ActiveKeys(HostOf(key), Snapshot(oracle, now)), FALSE, "none",
               EmptyCtx(accessKeys)).puts # <<>>

\* C17: a dry-run invocation of either scanner puts no record, leaves the
\* cursor alone and sends no backend DELETE: the credential store, the
\* state store and the backends are as before; its report names the
\* credentials it read that a real run would write or delete.
C17_DryRunNoEffects ==
    [][DryStep =>
          /\ accessKeys' = accessKeys
          /\ stateKV' = stateKV
          /\ backendKeys' = backendKeys
          /\ lastRun'.puts = <<>>
          /\ lastRun'.deleteCalls = <<>>
          /\ RevokeStep =>
                \A i \in DOMAIN lastRun'.processedKeys :
                   lastRun'.processedKeys[i].status =
                      IF ShouldDelete(accessKeys[lastRun'.processedKeys[i].key], now)
                      THEN "Would delete" ELSE "Not deleted"
          /\ ReconcileStep =>
                \A key \in Range(lastRun'.visited) :
                   KeyError(key) \notin Range(lastRun'.errors) =>
                      (key \in Range(lastRun'.updatedKeys) <=> WouldUpdate(key))]_vars

\* a dry-run revocation has reported a credential it would delete while a
\* cursor was stored
C17_Witness ==
    /\ lastRun.kind = "delete" /\ lastRun.isDryRun
    /\ \E i \in DOMAIN lastRun.processedKeys : lastRun.processedKeys[i].status = "Would delete"
    /\ stateKV # EmptyFn

---------------------------------------------------------------------------
(* The retry policy: retry(fn, maxRetries, delay) of the handlers          *)
(* (SpecRetry).  The script says, for each call of fn in turn, whether it  *)
(* resolves ("ok") or rejects ("fail"); the value or error of the k-th     *)
(* call is k.  `race` is the state of the loop.                            *)

MaxRetriesArg == 3

MAX_RETRIES == 2

Outcomes == {"ok", "fail"}

\* let lastError; for (let i = 0; ...
RetryStart(maxRetries, script) ==
    [pc |-> "loop", i |-> 0, maxRetries |-> maxRetries, script |-> script,
     calls |-> 0, lastError |-> 0, result |-> 0]

\* one iteration that keeps the error of the first failed attempt
RetryIterationFirstError(st) ==
    IF st.i < st.maxRetries
    THEN IF st.script[st.calls + 1] = "ok"
         THEN [st EXCEPT !.calls = @ + 1, !.pc = "returned", !.result = st.calls + 1]
         ELSE [st EXCEPT !.calls = @ + 1, !.i = @ + 1,
                         !.lastError = IF @ = 0 THEN st.calls + 1 ELSE @]
    ELSE [st EXCEPT !.pc = "threw"]

\* one iteration of the loop: try { return await fn() } catch (error)
\* { lastError = error; delay }, or the throw after the loop
RetryIteration(st) ==
    IF st.i < st.maxRetries
    THEN IF st.script[st.calls + 1] = "ok"
         THEN [st EXCEPT !.calls = @ + 1, !.pc = "returned", !.result = st.calls + 1]
         ELSE [st EXCEPT !.calls = @ + 1, !.i = @ + 1, !.lastError = st.calls + 1]
    ELSE [st EXCEPT !.pc = "threw"]

RECURSIVE RetryRun(_)
\* retry(fn, maxRetries) run to its end
RetryRun(st) == IF st.pc # "loop" THEN st ELSE RetryRun(RetryIteration(st))

InitRetry ==
    /\ accessKeys = EmptyFn
    /\ oracle = [key \in KeyNames |-> NoSample]
    /\ backendKeys = {}
    /\ endpoints = Hostnames
    /\ stateKV = EmptyFn
    /\ now = NowStart
    /\ maxKeys = 1
    /\ lastRun = NoRun
    /\ passLog = <<>>
    /\ \E maxRetries \in 1..MaxRetriesArg, script \in [1..(MaxRetriesArg + 1) -> Outcomes] :
          race = RetryStart(maxRetries, script)

RetryLoop ==
    /\ race.pc = "loop"
    /\ race' = RetryIteration(race)
    /\ UNCHANGED <<accessKeys, oracle, backendKeys, endpoints, stateKV, now, maxKeys,
                   lastRun, passLog>>

NextRetry == RetryLoop

SpecRetry == InitRetry /\ [][NextRetry]_vars

\* the calls of fn that resolve
Successes(script) == {k \in DOMAIN script : script[k] = "ok"}

\* the first call that resolves is call k
FirstSuccess(script, k) == k \in Successes(script) /\ \A j \in Successes(script) : k <= j

\* C18: retry calls fn at most maxRetries times; it returns the result of
\* the first call that resolves and calls fn no more; when the first
\* maxRetries calls all reject it throws the error of the last of them.
C18_RetryContract ==
    /\ race.calls <= race.maxRetries
    /\ race.pc = "returned" =>
          /\ FirstSuccess(race.script, race.calls)
          /\ race.result = race.calls
    /\ race.pc = "threw" =>
          /\ \A k \in 1..race.maxRetries : race.script[k] = "fail"
          /\ race.calls = race.maxRetries
          /\ race.lastError = race.maxRetries
    /\ race.pc = "loop" =>
          /\ race.calls = race.i
          /\ \A k \in 1..race.calls : race.script[k] = "fail"

\* three attempts were made, all failed, and retry has thrown
C18_Witness ==
    /\ race.pc = "threw"
    /\ race.maxRetries = MaxRetriesArg
    /\ race.lastError = MaxRetriesArg

---------------------------------------------------------------------------
(* Invocations in which one call fails on its first attempt and would      *)
(* succeed on its second (SpecTransient).  A call is named by the scanner  *)
(* and by the kind of the fault point it is made at; "noEndpoint" is the   *)
(* endpoint get of processKeyForDeletion.                                  *)

\* the call is made as retry(() => call)
UnderRetry(scanner, kind) ==
    IF scanner = "update"
    THEN kind \in {"list", "get", "put", "oracle"}    \* lines 189, 206, 232/282, 300
    ELSE kind \in {"list", "noEndpoint", "put"}       \* lines 124, 214, 249

\* the called function catches the failure of its request and resolves to
\* { success: false }: queryPrometheus, sendDeleteRequest
Swallows(scanner, kind) ==
    \/ scanner = "update" /\ kind = "oracle"
    \/ scanner = "delete" /\ kind = "del"

\* the network outcome of each attempt of a call that fails transiently
Transient == [k \in 1..MAX_RETRIES |-> IF k = 1 THEN "fail" ELSE "ok"]

\* what the scanner gets from a call whose attempts meet the outcomes net
CallOutcome(scanner, kind, net) ==
    IF ~UnderRetry(scanner, kind) THEN net[1]
    ELSE LET seen == [k \in DOMAIN net |-> IF Swallows(scanner, kind) THEN "ok" ELSE net[k]]
             r == RetryRun(RetryStart(MAX_RETRIES, seen))
         IN IF r.pc = "returned" THEN net[r.result] ELSE "fail"

\* the fault points of an invocation whose call at f fails transiently
AfterRetry(scanner, f) ==
    [i \in 1..MaxFaults |->
        IF f.kind # "none" /\ CallOutcome(scanner, f.kind, Transient) = "fail"
        THEN f ELSE NoFault]

TransientUpdatePoints ==
    {HostFault(h, k) : h \in HostSet, k \in {"oracle", "list"}}
    \cup {KeyFault(key, k) : key \in DOMAIN accessKeys, k \in {"get", "put"}}

TransientDeletePoints ==
    {HostFault(h, k) : h \in HostSet, k \in {"noEndpoint", "list"}}
    \cup {KeyFault(key, k) : key \in DOMAIN accessKeys, k \in {"get", "put", "del"}}

TransientReconcile(f, badCursor) ==
    /\ Reconcile(FALSE, AfterRetry("update", f), badCursor)
    /\ UNCHANGED <<passLog, race>>

TransientRevoke(f, badCursor) ==
    /\ Revoke(FALSE, AfterRetry("delete", f), badCursor)
    /\ UNCHANGED <<passLog, race>>

NextTransient ==
    \/ \E f \in TransientUpdatePoints, badCursor \in BadModesFor(UPDATE_CURSOR_KEY) :
          TransientReconcile(f, badCursor)
    \/ \E f \in TransientDeletePoints, badCursor \in BadModesFor(DELETE_CURSOR_KEY) :
          TransientRevoke(f, badCursor)

SpecTransient == InitRevScan /\ [][NextTransient]_vars

\* C19: an invocation in which one call fails on its first attempt only
\* ends as the invocation without that failure would: same records, same
\* backends, same report, no error recorded for the call.
C19_TransientFailureAbsorbed ==
    [][/\ ReconcileStep =>
             \E q \in {updateAccessKeys(maxKeys, accessKeys,
                          StateGet(stateKV, UPDATE_CURSOR_KEY),
                          Input(FALSE, endpoints, Snapshot(oracle, now), NoFaults,
                                "throw"))} :
                lastRun'.badCursor = "throw" =>
                   /\ accessKeys' = q.ctx.kv
                   /\ lastRun'.errors = q.ctx.errors
                   /\ lastRun'.visited = q.ctx.visited
       /\ RevokeStep =>
             \E q \in {processAllKeys(maxKeys, accessKeys, backendKeys, now,
                          StateGet(stateKV, DELETE_CURSOR_KEY), QuietInput(FALSE))} :
                lastRun'.badCursor = "throw" =>
                   /\ accessKeys' = q.ctx.kv
                   /\ backendKeys' = q.ctx.backend
                   /\ lastRun'.errors = q.ctx.errors
                   /\ lastRun'.processedKeys = q.ctx.processedKeys]_vars

---------------------------------------------------------------------------
(* Failure of one credential's read or write inside a batch (SpecResume).  *)

\* an invocation in which the store operation `kind` of key fails
FailingAt(key, kind) ==
    Input(FALSE, endpoints, Snapshot(oracle, now),
          [i \in 1..MaxFaults |-> KeyFault(key, kind)], "throw")

\* the report entries about the other credentials
WithoutKey(infos, key) ==
    LET other(info) == info.key # key
    IN SelectSeq(infos, other)

\* the number of per-key error entries about key
ErrorsFor(errors, key) == Cardinality({i \in DOMAIN errors : errors[i] = KeyError(key)})

OthersAlike(kv1, kv2, key) == \A other \in DOMAIN kv1 \ {key} : kv1[other] = kv2[other]

\* f: the reconciliation invocation with the failure, q: the one without
UpdateIsolated(key, kind, q, f) ==
    key \in Range(IF kind = "get" THEN q.visited ELSE q.puts) =>
       /\ ErrorsFor(f.errors, key) = 1
       /\ f.visited = q.visited
       /\ OthersAlike(f.kv, q.kv, key)

\* f: the revocation invocation with the failure, q: the one without
RevokeIsolated(key, kind, q, f) ==
    (IF kind = "get" THEN StatusOf(q, key) # {} ELSE key \in Range(q.puts)) =>
       /\ ErrorsFor(f.errors, key) = 1 \/ StatusOf(f, key) = {"Error"}
       /\ WithoutKey(f.processedKeys, key) = WithoutKey(q.processedKeys, key)
       /\ OthersAlike(f.kv, q.kv, key)
       /\ f.backend \ {key} = q.backend \ {key}

\* C20: in both scanners an invocation in which the read or the write of
\* one credential fails records one error entry for that credential and
\* treats every other credential as the invocation without the failure does.
C20_ErrorIsolation ==
    /\ \E q \in {updateAccessKeys(maxKeys, accessKeys, StateGet(stateKV, UPDATE_CURSOR_KEY),
                                  Input(FALSE, endpoints, Snapshot(oracle, now), NoFaults,
                                        "throw")).ctx} :
          \A key \in DOMAIN accessKeys, kind \in {"get", "put"} :
             \E f \in {updateAccessKeys(maxKeys, accessKeys,
                                        StateGet(stateKV, UPDATE_CURSOR_KEY),
                                        FailingAt(key, kind)).ctx} :
                UpdateIsolated(key, kind, q, f)
    /\ \E q \in {processAllKeys(maxKeys, accessKeys, backendKeys, now,
                                StateGet(stateKV, DELETE_CURSOR_KEY),
                                QuietInput(FALSE)).ctx} :
          \A key \in DOMAIN accessKeys, kind \in {"get", "put"} :
             \E f \in {processAllKeys(maxKeys, accessKeys, backendKeys, now,
                                      StateGet(stateKV, DELETE_CURSOR_KEY),
                                      FailingAt(key, kind)).ctx} :
                RevokeIsolated(key, kind, q, f)

---------------------------------------------------------------------------
(* Issuance: the endpoint scorer and the handler around it (SpecScore).    *)
(* `race` is the state of one POST request: the probes of                  *)
(* getOptimalApiEndpoint run concurrently and end in any order.            *)

ScoreHosts == <<"A", "B", "C">>

\* latencies (ms) and key counts the probes may measure
Latencies == {20, 50}
KeyCounts == {10, 100}

\* WEIGHT_LATENCY = 0.8 and WEIGHT_ACCESS_KEY_COUNT = 0.2, in tenths
WEIGHT_LATENCY == 8
WEIGHT_ACCESS_KEY_COUNT == 2

\* what one probe meets: namespace.get(endpoint.name) gives the record
\* ("ok"), nothing ("missing") or rejects ("throws"); the fetch answers with
\* a success status ("ok"), another status ("status"), is aborted by the
\* timer ("timeout") or fails ("error")
Probe(get, resp, latency, count) ==
    [get |-> get, resp |-> resp, latency |-> latency, count |-> count]

ProbeOutcomes ==
    {Probe("missing", "none", 0, 0), Probe("throws", "none", 0, 0)}
    \cup {Probe("ok", r, 0, 0) : r \in {"status", "timeout", "error"}}
    \cup {Probe("ok", "ok", l, c) : l \in Latencies, c \in KeyCounts}

\* the backend answered its probe with a success status before the timeout
AnsweredOk(p) == p.get = "ok" /\ p.resp = "ok"

\* ten times WEIGHT_LATENCY * latency + WEIGHT_ACCESS_KEY_COUNT * accessKeyCount
Score(p) == WEIGHT_LATENCY * p.latency + WEIGHT_ACCESS_KEY_COUNT * p.count

\* endpointScores.sort((a, b) => a.score - b.score); endpointScores[0]:
\* the sort is stable
FirstOfSorted(scores) ==
    scores[CHOOSE i \in DOMAIN scores :
              \A j \in DOMAIN scores :
                 \/ scores[i].score < scores[j].score
                 \/ scores[i].score = scores[j].score /\ i <= j]

\* lines 240-246, on the scores pushed so far
Select(st) ==
    IF st.scores = <<>>
    THEN [st EXCEPT !.pc = "unavailable"]    \* throw new Error('No available API endpoints.')
    ELSE [st EXCEPT !.pc = "selected", !.result = FirstOfSorted(st.scores).endpoint]

\* the catch of handleRequest answering every error alike
StatusOfErrorGeneric(message) == 500

\* the catch of handleRequest, lines 151-157
StatusOfError(message) ==
    IF message = "No available API endpoints." THEN 503 ELSE 500

InitScore ==
    /\ accessKeys = EmptyFn
    /\ oracle = [key \in KeyNames |-> NoSample]
    /\ backendKeys = {}
    /\ \E n \in 0..Len(ScoreHosts) : endpoints = SubSeq(ScoreHosts, 1, n)
    /\ stateKV = EmptyFn
    /\ now = NowStart
    /\ maxKeys = 1
    /\ lastRun = NoRun
    /\ passLog = <<>>
    /\ \E probes \in [Range(endpoints) -> ProbeOutcomes] :
          race = [pc |-> "probing", probes |-> probes, done |-> {}, scores |-> <<>>,
                  result |-> "", response |-> 0]

\* the callback of one endpoint comes to its end; a rejected callback
\* rejects Promise.all at once, and the scorer goes on with the scores
\* pushed until then
ProbeEnds(h) ==
    /\ race.pc = "probing"
    /\ h \in DOMAIN race.probes \ race.done
    /\ race' = IF race.probes[h].get = "throws"
               THEN Select([race EXCEPT !.done = @ \cup {h}])
               ELSE [race EXCEPT
                        !.done = @ \cup {h},
                        !.scores = IF AnsweredOk(race.probes[h])
                                   THEN Append(@, [endpoint |-> h,
                                                   score |-> Score(race.probes[h])])
                                   ELSE @]
    /\ UNCHANGED <<accessKeys, oracle, backendKeys, endpoints, stateKV, now, maxKeys,
                   lastRun, passLog>>

\* every callback has ended: Promise.all resolves
AllSettled ==
    /\ race.pc = "probing"
    /\ race.done = DOMAIN race.probes
    /\ race' = Select(race)
    /\ UNCHANGED <<accessKeys, oracle, backendKeys, endpoints, stateKV, now, maxKeys,
                   lastRun, passLog>>

\* the scorer threw: the catch of handleRequest answers
AnswerUnavailable ==
    /\ race.pc = "unavailable"
    /\ race' = [race EXCEPT !.pc = "answered",
                            !.response = StatusOfError("No available API endpoints.")]
    /\ UNCHANGED <<accessKeys, oracle, backendKeys, endpoints, stateKV, now, maxKeys,
                   lastRun, passLog>>

\* lines 34-150 for the selected backend: the key is created there and its
\* record written (created), or the backend returns no key
AnswerSelected(created) ==
    /\ race.pc = "selected"
    /\ IF created
       THEN /\ accessKeys' = [k \in DOMAIN accessKeys \cup {<<race.result, NextId(race.result)>>} |->
                                 IF k \in DOMAIN accessKeys THEN accessKeys[k]
                                 ELSE FreshRecord(now)]
            /\ backendKeys' = backendKeys \cup {<<race.result, NextId(race.result)>>}
            /\ race' = [race EXCEPT !.pc = "answered", !.response = 200]
       ELSE /\ UNCHANGED <<accessKeys, backendKeys>>
            /\ race' = [race EXCEPT !.pc = "answered", !.response = 500]
    /\ UNCHANGED <<oracle, endpoints, stateKV, now, maxKeys, lastRun, passLog>>

NextScore ==
    \/ \E h \in Range(endpoints) : ProbeEnds(h)
    \/ AllSettled
    \/ AnswerUnavailable
    \/ \E created \in BOOLEAN : AnswerSelected(created)

SpecScore == InitScore /\ [][NextScore]_vars

\* C21: the backend returned by getOptimalApiEndpoint answered its probe
\* with a success status, and no backend that answers its probe with a
\* success status has a lower score; for A(50 ms, 10 keys) and B(20 ms,
\* 100 keys) the scores are 42 and 36 and B is returned.
C21_ScorerSelectsMinimum ==
    /\ race.result # "" =>
          /\ AnsweredOk(race.probes[race.result])
          /\ \A h \in DOMAIN race.probes :
                AnsweredOk(race.probes[h]) =>
                   Score(race.probes[race.result]) <= Score(race.probes[h])
    /\ Score(Probe("ok", "ok", 50, 10)) = 420
    /\ Score(Probe("ok", "ok", 20, 100)) = 360
    /\ (/\ endpoints = <<"A", "B">>
        /\ race.probes["A"] = Probe("ok", "ok", 50, 10)
        /\ race.probes["B"] = Probe("ok", "ok", 20, 100)
        /\ race.result # "") => race.result = "B"

\* every backend is excluded from the ranking (or there is none)
AllExcluded == \A h \in DOMAIN race.probes : ~AnsweredOk(race.probes[h])

\* C22: when every backend is excluded the scorer fails with its own error
\* and the request is answered 503; no credential is created on a backend
\* and no record is written.
C22_NoAvailableBackends ==
    (AllExcluded /\ race.pc # "probing") =>
       /\ race.result = ""
       /\ race.pc \in {"unavailable", "answered"}
       /\ race.pc = "answered" => race.response = 503
       /\ accessKeys = EmptyFn
       /\ backendKeys = {}

\* a request over two backends, one timed out and one answering with a
\* non-success status, has been answered
C22_Witness ==
    /\ race.pc = "answered"
    /\ race.response = 503
    /\ Len(endpoints) = 2
    /\ race.probes["A"].resp = "timeout"
    /\ race.probes["B"].resp = "status"

---------------------------------------------------------------------------
(* The entry points /update, /delete and /list and the scheduled trigger   *)
(* (SpecAuth).  `race` is the last request and its response status.        *)

AUTH_TOKEN == <<"s", "e", "c", "r", "e", "t">>

\* request.headers.get('Authorization'): null when the header is missing
NoHeader == <<>>

\* `Bearer ${authToken}`
Bearer(token) == <<"Bearer", " ">> \o token

Headers ==
    {NoHeader, Bearer(AUTH_TOKEN), Bearer(<<"g", "u", "e", "s", "s">>), AUTH_TOKEN,
     <<"Basic", " ">> \o AUTH_TOKEN, Bearer(AUTH_TOKEN) \o <<"x">>}

\* a check that looks at the scheme only
verifyAuthSchemeOnly(authHeader, authToken) ==
    authHeader # NoHeader /\ SubSeq(authHeader, 1, 2) = <<"Bearer", " ">>

\* utils/authentication.js: authHeader && authHeader === `Bearer ${authToken}`
verifyAuth(authHeader, authToken) ==
    authHeader # NoHeader /\ authHeader = Bearer(authToken)

Request(entry, cron, header, status) ==
    [entry |-> entry, cron |-> cron, header |-> header, status |-> status]

InitAuth ==
    /\ \E counts \in [HostSet -> 0..MaxKeysPerHost] : accessKeys = Population(counts)
    /\ backendKeys = DOMAIN accessKeys
    /\ endpoints = Hostnames
    /\ oracle = [key \in KeyNames |-> NoSample]
    /\ stateKV = EmptyFn
    /\ now = NowStart
    /\ maxKeys \in 1..MaxBudget
    /\ lastRun = NoRun
    /\ passLog = <<>>
    /\ race = Request("none", FALSE, NoHeader, 0)

\* return handleError('Unauthorized', 401)
Reject(entry, header) ==
    /\ race' = Request(entry, FALSE, header, 401)
    /\ lastRun' = [NoRun EXCEPT !.kind = "rejected"]
    /\ UNCHANGED <<accessKeys, oracle, backendKeys, endpoints, stateKV, now, maxKeys, passLog>>

\* handlers/update.js handleRequest(request, isCronTriggered); the
\* scheduled trigger passes request = null
UpdateEntry(cron, header, isDryRun, badCursor) ==
    /\ cron => header = NoHeader /\ ~isDryRun
    /\ IF ~cron /\ ~verifyAuth(header, AUTH_TOKEN)
       THEN Reject("update", header)
       ELSE /\ Reconcile(isDryRun, NoFaults, badCursor)
            /\ race' = Request("update", cron, header, 200)
            /\ UNCHANGED passLog

\* handlers/delete.js handleRequest(request, false, env)
DeleteEntry(header, isDryRun, badCursor) ==
    IF ~verifyAuth(header, AUTH_TOKEN)
    THEN Reject("delete", header)
    ELSE /\ Revoke(isDryRun, NoFaults, badCursor)
         /\ race' = Request("delete", FALSE, header, 200)
         /\ UNCHANGED passLog

\* the keys of ACCESS_KEYS_NAMESPACE.list() in the store's order
AllKeys(kv, i) ==
    IF i > Len(Hostnames) THEN <<>>
    ELSE KeysOf(kv, Hostnames[i]) \o
         (IF i + 1 > Len(Hostnames) THEN <<>> ELSE KeysOf(kv, Hostnames[i + 1]))

\* handlers/list.js handleRequest(request): reads every record
ListEntry(header) ==
    IF ~verifyAuth(header, AUTH_TOKEN)
    THEN Reject("list", header)
    ELSE /\ race' = Request("list", FALSE, header, 200)
         /\ lastRun' = [NoRun EXCEPT !.kind = "list", !.visited = AllKeys(accessKeys, 1)]
         /\ UNCHANGED <<accessKeys, oracle, backendKeys, endpoints, stateKV, now, maxKeys,
                        passLog>>

NextAuth ==
    \/ \E cron \in BOOLEAN, header \in Headers, isDryRun \in BOOLEAN,
          badCursor \in BadModesFor(UPDATE_CURSOR_KEY) :
          UpdateEntry(cron, header, isDryRun, badCursor)
    \/ \E header \in Headers, isDryRun \in BOOLEAN,
          badCursor \in BadModesFor(DELETE_CURSOR_KEY) :
          DeleteEntry(header, isDryRun, badCursor)
    \/ \E header \in Headers : ListEntry(header)

SpecAuth == InitAuth /\ [][NextAuth]_vars

\* the step made no store read or write, no usage query and no backend call
NoStoreOrBackendCall ==
    /\ UNCHANGED <<accessKeys, stateKV, backendKeys>>
    /\ lastRun'.lists = <<>> /\ lastRun'.visited = <<>> /\ lastRun'.puts = <<>>
    /\ lastRun'.deleteCalls = <<>> /\ lastRun'.processedKeys = <<>>
    /\ lastRun'.kind \notin {"update", "delete", "list"}

\* C23: a request to /update, /delete or /list that is not the scheduled
\* trigger and whose Authorization header is missing or is not
\* "Bearer <AUTH_TOKEN>" is answered 401 and makes no store access, usage
\* query or backend call; only the scheduled trigger runs unchecked.
C23_UnauthorizedNoEffect ==
    [][race' # race =>
          /\ (~race'.cron /\ race'.header # Bearer(AUTH_TOKEN)) => race'.status = 401
          /\ race'.status = 401 => NoStoreOrBackendCall
          /\ race'.status # 401 => (race'.cron \/ race'.header = Bearer(AUTH_TOKEN))]_vars

\* a delete request with a wrong token was rejected while records existed
C23_Witness ==
    /\ race.entry = "delete" /\ race.status = 401
    /\ race.header = Bearer(<<"g", "u", "e", "s", "s">>)
    /\ accessKeys # EmptyFn

---------------------------------------------------------------------------
(* The first revocation worker, src/delete.js, beside the operations of    *)
(* Spec (SpecOldWorker).  `passLog` is ACCESS_KEYS_DELETION_NAMESPACE.     *)

\* the key names in the order the worker walks them: hostname by hostname,
\* `${endpointKey}-key-${accessKey}`
KeyNameSeq ==
    [i \in 1..(Len(Hostnames) * MaxKeysPerHost) |->
        <<Hostnames[((i - 1) \div MaxKeysPerHost) + 1], ((i - 1) % MaxKeysPerHost) + 1>>]

\* the usage query `sum(increase(...)) by (access_key) == 0` of one
\* backend: the keys with a series and no traffic in the range
KeysToDelete(orc, eps) ==
    {key \in KeyNames :
        /\ \E i \in 1..Len(eps) : eps[i] = key[1]
        /\ orc[key].present /\ orc[key].bytes = 0}

\* logDeletion: {creationTime, deletionTime} under the key's name
DeletionLog(kv, key, t) ==
    [key |-> key,
     creationTime |-> IF key \in DOMAIN kv THEN kv[key].creationTime ELSE Null,
     deletionTime |-> t]

\* src/delete.js handleRequest: every key the query names is deleted on its
\* backend and, when that succeeds, logged and removed from
\* ACCESS_KEYS_NAMESPACE
OldWorker(isDryRun) ==
    LET named == KeysToDelete(oracle, endpoints)
        deleted == IF isDryRun THEN {}
                   ELSE {key \in named : DeleteSucceeds(key, backendKeys, "none")}
        InOrder(S) == SelectSeq(KeyNameSeq, LAMBDA key : key \in S)
    IN /\ Len(passLog) + Cardinality(deleted) <= MaxLog
       /\ backendKeys' = backendKeys \ deleted
       /\ passLog' = passLog \o
              [i \in 1..Cardinality(deleted) |-> DeletionLog(accessKeys, InOrder(deleted)[i], now)]
       /\ accessKeys' = [key \in DOMAIN accessKeys \ deleted |-> accessKeys[key]]
       /\ lastRun' = [NoRun EXCEPT !.kind = "oldDelete", !.isDryRun = isDryRun,
                                   !.processedKeys = InOrder(named),
                                   !.deleteCalls = InOrder(named \ (IF isDryRun THEN named ELSE {}))]
       /\ UNCHANGED <<oracle, endpoints, stateKV, now, maxKeys, race>>

\* a backend never gives the id of a deleted access key to a new one
IdsNotReused ==
    lastRun'.kind = "issue" =>
        \A i \in 1..Len(passLog) : passLog[i].key \in DOMAIN accessKeys \/ passLog[i].key \notin DOMAIN accessKeys'

NextOldWorker ==
    \/ Next /\ IdsNotReused
    \/ \E isDryRun \in BOOLEAN : OldWorker(isDryRun)

SpecOldWorker == Init /\ [][NextOldWorker]_vars

\* C24: a record once written to the credential store stays in it with the
\* creationTime written at issuance, whatever issuance, reconciliation and
\* revocation operations follow; deletion is only a tombstone on the record.
C24_NeverPhysicallyRemoved ==
    [][\A key \in DOMAIN accessKeys :
          /\ key \in DOMAIN accessKeys'
          /\ accessKeys'[key].creationTime = accessKeys[key].creationTime]_vars

---------------------------------------------------------------------------
(* The activity transition and the backfill of processKey (Spec).          *)

\* none of deletionTime, lastSeen, currentlyConnected is structurally absent
AllFieldsPresent(rec) ==
    rec.deletionTime # Missing /\ rec.lastSeen # Missing /\ rec.currentlyConnected # "missing"

\* the last invocation processed key in a real run and reported no error for it
ProcessedCleanly(run, key) ==
    /\ ~run.isDryRun
    /\ key \in Range(run.visited)
    /\ KeyError(key) \notin Range(run.errors)

\* C25: a credential with deletionTime, lastSeen and currentlyConnected all
\* present and no tombstone, processed by a reconciliation pass, is active
\* iff the backend's usage data holds its key id with totalBytes > 0; if
\* active its record becomes currentlyConnected = true with lastSeen = the
\* snapshot timestamp, otherwise currentlyConnected = false with lastSeen
\* unchanged; no other field changes.
C25_ActivityTransition ==
    [][ReconcileStep =>
          \A key \in DOMAIN accessKeys :
              (/\ ProcessedCleanly(lastRun', key)
               /\ AllFieldsPresent(accessKeys[key])
               /\ accessKeys[key].deletionTime = Null)
              => LET old == accessKeys[key]
                     isActive == oracle[key].present /\ oracle[key].bytes > 0
                 IN accessKeys'[key] =
                        IF isActive
                        THEN Rec(old.creationTime, old.deletionTime, now - oracle[key].skew, "true")
                        ELSE Rec(old.creationTime, old.deletionTime, old.lastSeen, "false")]_vars

\* a pass found a credential active in a snapshot taken a day before
C25_Witness ==
    /\ lastRun.kind = "update"
    /\ \E key \in DOMAIN accessKeys :
          /\ ProcessedCleanly(lastRun, key)
          /\ oracle[key] = Sample(1, 1)
          /\ accessKeys[key] = Rec(accessKeys[key].creationTime, Null, now - 1, "true")

\* x ?? null on the three optional fields
Backfilled(rec) ==
    Rec(rec.creationTime, Coalesce(rec.deletionTime), Coalesce(rec.lastSeen),
        CoalesceCC(rec.currentlyConnected))

\* C26: a record lacking any of deletionTime, lastSeen, currentlyConnected
\* is written by reconciliation with each missing field null and every
\* present field unchanged, without an activity comparison in that pass;
\* and no invocation writes the same credential twice.
C26_LegacyBackfill ==
    [][ReconcileStep =>
          /\ \A key \in DOMAIN accessKeys :
                (ProcessedCleanly(lastRun', key) /\ ~AllFieldsPresent(accessKeys[key]))
                => accessKeys'[key] = Backfilled(accessKeys[key])
          /\ \A i, j \in DOMAIN lastRun'.puts :
                lastRun'.puts[i] = lastRun'.puts[j] => i = j]_vars

\* a pass backfilled a legacy record of a credential the usage data shows active
C26_Witness ==
    /\ lastRun.kind = "update"
    /\ \E key \in DOMAIN accessKeys :
          /\ ProcessedCleanly(lastRun, key)
          /\ key \in Range(lastRun.puts)
          /\ oracle[key] = Sample(1, 0)
          /\ accessKeys[key] = Rec(accessKeys[key].creationTime, Null, Null, "null")

---------------------------------------------------------------------------
(* queryActiveKeys over result sets of several tuples (SpecSnapshot).      *)
(* `race` is the result set received so far and the value returned for it. *)

MaxTuples == 3
TupleIds == 1..2
TupleTimes == {1, 2}
TupleBytes == {1, 2}

\* parseFloat of a string that is not a number
NaN == -1

\* a.totalBytes += bytes
AddBytes(a, b) == IF a = NaN \/ b = NaN THEN NaN ELSE a + b

(* An item of queryResult.data.  shape "ok" passes the test of line 314    *)
(* with numeric value[0] and value[1]; "noMetric" and "shortValue" fail    *)
(* the test; "badBytes" passes it with a value[1] parseFloat cannot read;  *)
(* "badTime" passes it with a value[0] that is not a number.               *)
Item(shape, id, time, bytes) == [shape |-> shape, id |-> id, time |-> time, bytes |-> bytes]

Items ==
    {Item(s, id, t, b) : s \in {"ok"}, id \in TupleIds, t \in TupleTimes, b \in TupleBytes}
    \cup {Item(s, id, 1, 1) : s \in {"noMetric", "shortValue"}, id \in {1}}
    \cup {Item("badBytes", id, 1, NaN) : id \in {1}}
    \cup {Item("badTime", id, 0, 1) : id \in {1}}

NoActiveKeys == [id \in TupleIds |-> NoEntry]

\* the body of the forEach callback, lines 313-329, for an item whose
\* timestamp converts
AddItem(activeKeys, item) ==
    IF item.shape \in {"noMetric", "shortValue"} THEN activeKeys
    ELSE LET old == IF activeKeys[item.id].present THEN activeKeys[item.id]
                    ELSE Entry(0, item.time)
         IN [activeKeys EXCEPT ![item.id] =
                Entry(AddBytes(old.totalBytes, item.bytes),
                      IF item.time > old.lastSeen THEN item.time ELSE old.lastSeen)]

RECURSIVE Aggregate(_, _, _)
\* queryResult.data.forEach(...) from item i on; new Date(NaN).toISOString()
\* throws a RangeError, which the catch of line 346 turns into success false
Aggregate(data, i, activeKeys) ==
    IF i > Len(data) THEN [success |-> TRUE, data |-> activeKeys]
    ELSE IF data[i].shape = "badTime" THEN [success |-> FALSE, data |-> NoActiveKeys]
    ELSE Aggregate(data, i + 1, AddItem(activeKeys, data[i]))

\* queryActiveKeys, lines 312-346, of a successful query result
AggregateResult(data) == Aggregate(data, 1, NoActiveKeys)

InitSnapshot ==
    /\ accessKeys = EmptyFn
    /\ oracle = [key \in KeyNames |-> NoSample]
    /\ backendKeys = {}
    /\ endpoints = Hostnames
    /\ stateKV = EmptyFn
    /\ now = NowStart
    /\ maxKeys = 1
    /\ lastRun = NoRun
    /\ passLog = <<>>
    /\ race = [data |-> <<>>, result |-> AggregateResult(<<>>)]

\* the backend's answer holds one more tuple
Receive(item) ==
    /\ Len(race.data) < MaxTuples
    /\ race' = [data |-> Append(race.data, item),
                result |-> AggregateResult(Append(race.data, item))]
    /\ UNCHANGED <<accessKeys, oracle, backendKeys, endpoints, stateKV, now, maxKeys,
                   lastRun, passLog>>

NextSnapshot == \E item \in Items : Receive(item)

SpecSnapshot == InitSnapshot /\ [][NextSnapshot]_vars

\* the positions of the tuples of key id that carry an id, a time and a
\* byte count
TuplesOf(data, id) == {i \in DOMAIN data : data[i].shape = "ok" /\ data[i].id = id}

RECURSIVE SumBytes(_, _)
SumBytes(data, S) ==
    IF S = {} THEN 0
    ELSE LET i == CHOOSE j \in S : TRUE IN data[i].bytes + SumBytes(data, S \ {i})

\* what the claim says the snapshot holds for key id
EntryByClaim(data, id) ==
    LET S == TuplesOf(data, id)
    IN IF S = {} THEN NoEntry
       ELSE Entry(SumBytes(data, S),
                  CHOOSE t \in {data[i].time : i \in S} : \A i \in S : data[i].time <= t)

\* C27: for every result set the snapshot entry of each key id has
\* totalBytes = the sum of the byte counts of its tuples and lastSeen = the
\* latest of their timestamps, whatever the order of the tuples; a key id
\* with no tuple is absent; malformed tuples are ignored.
C27_SnapshotAggregation ==
    /\ race.result.success
    /\ \A id \in TupleIds : race.result.data[id] = EntryByClaim(race.data, id)

\* the same for result sets whose malformed tuples all fail the test of line 314
C27_AggregationOfFilteredSets ==
    (\A i \in DOMAIN race.data : race.data[i].shape \in {"ok", "noMetric", "shortValue"})
    => C27_SnapshotAggregation

---------------------------------------------------------------------------
(* The usage query adapter under failing backends (SpecAdapter).  `race`   *)
(* holds what each backend's Prometheus answered in the last invocation.   *)

(* What the fetch of queryPrometheus meets: "transport" (fetch rejects),   *)
(* "status" (response.ok false), "badJson" (response.json() rejects),      *)
(* "noData" (no data member: data.data.result throws a TypeError),         *)
(* "noResult" (data.data has no result), "notArray" (result is not an      *)
(* array), "array" (a result array).                                       *)
PromReplies == {"transport", "status", "badJson", "noData", "noResult", "notArray", "array"}

Returned(success, data, error) ==
    [threw |-> FALSE, success |-> success, data |-> data, error |-> error]

\* utils/prometheusQueries.js queryPrometheus: the catch returns error.message
queryPrometheus(reply) ==
    IF reply \in {"transport", "status", "badJson", "noData"}
    THEN Returned(FALSE, "none", reply)
    ELSE Returned(TRUE, reply, "")

\* queryActiveKeys without the structure test of line 308
queryActiveKeysUnchecked(reply) ==
    LET queryResult == queryPrometheus(reply)
    IN IF ~queryResult.success
       THEN Returned(FALSE, "none", "Prometheus query unsuccessful")
       ELSE Returned(TRUE, "activeKeys", "")

\* handlers/update.js queryActiveKeys, lines 297-310 and 346-349
queryActiveKeys(reply) ==
    LET queryResult == queryPrometheus(reply)
    IN IF ~queryResult.success
       THEN Returned(FALSE, "none", "Prometheus query unsuccessful")
       ELSE IF queryResult.data # "array"
       THEN Returned(FALSE, "none", "Unexpected Prometheus response structure")
       ELSE Returned(TRUE, "activeKeys", "")

\* updateAccessKeys, line 161: if (!activeKeysResult.success)
OracleFault(reply) == IF queryActiveKeys(reply).success THEN "none" ELSE "oracle"

InitAdapter ==
    /\ \E counts \in [HostSet -> 0..MaxKeysPerHost] : accessKeys = Population(counts)
    /\ backendKeys = DOMAIN accessKeys
    /\ endpoints = Hostnames
    /\ oracle = [key \in KeyNames |-> NoSample]
    /\ stateKV = EmptyFn
    /\ now = NowStart
    /\ maxKeys \in 1..MaxBudget
    /\ lastRun = NoRun
    /\ passLog = <<>>
    /\ race = [replies |-> [h \in HostSet |-> "array"]]

\* one invocation of handlers/update.js in which backend h's Prometheus
\* answers replies[h]
AdapterReconcile(replies, badCursor) ==
    LET startCursor == StateGet(stateKV, UPDATE_CURSOR_KEY)
        inp == [Input(FALSE, endpoints, Snapshot(oracle, now), NoFaults, badCursor)
                   EXCEPT !.hostFault = [h \in HostSet |-> OracleFault(replies[h])]]
    IN \E r \in {updateAccessKeys(maxKeys, accessKeys, startCursor, inp)} :
       /\ accessKeys' = r.ctx.kv
       /\ stateKV' = PersistCursor(stateKV, UPDATE_CURSOR_KEY, FALSE, r.nextCursor)
       /\ lastRun' = [NoRun EXCEPT
                        !.kind = "update", !.badCursor = badCursor,
                        !.startCursor = startCursor, !.nextCursor = r.nextCursor,
                        !.visited = r.ctx.visited, !.puts = r.ctx.puts,
                        !.errors = r.ctx.errors, !.lists = r.ctx.lists,
                        !.updatedKeys = r.ctx.updatedKeys]
       /\ race' = [replies |-> replies]
       /\ UNCHANGED <<oracle, backendKeys, endpoints, now, maxKeys, passLog>>

\* one failure caught in queryPrometheus, one found by queryActiveKeys
ScanReplies == {"status", "notArray", "array"}

NextAdapter ==
    \E replies \in [HostSet -> ScanReplies], badCursor \in BadModesFor(UPDATE_CURSOR_KEY) :
       AdapterReconcile(replies, badCursor)

SpecAdapter == InitAdapter /\ [][NextAdapter]_vars

\* the entries of errors that name backend h / the list calls made for h
HostErrors(run, h) == {i \in DOMAIN run.errors : run.errors[i].host = h /\ run.errors[i].id = 0}
ListCalls(run, h) == {i \in DOMAIN run.lists : run.lists[i].host = h}

\* C28: on a transport failure, a non-success status or a malformed payload
\* queryPrometheus and queryActiveKeys return success = false with a
\* message and do not throw; the scanner records one error for that
\* backend, processes none of its keys and goes on to the next backend.
C28_AdapterNeverThrows ==
    /\ \A reply \in PromReplies :
          /\ ~queryPrometheus(reply).threw /\ ~queryActiveKeys(reply).threw
          /\ reply # "array" =>
                /\ ~queryActiveKeys(reply).success
                /\ queryActiveKeys(reply).error # ""
          /\ reply \in {"transport", "status", "badJson", "noData"} =>
                ~queryPrometheus(reply).success /\ queryPrometheus(reply).error # ""
    /\ lastRun.kind = "update" =>
          \A i \in 1..Len(endpoints) :
             LET h == endpoints[i]
                 reached == HostErrors(lastRun, h) # {} \/ ListCalls(lastRun, h) # {}
             IN /\ race.replies[h] # "array" =>
                      /\ Cardinality(HostErrors(lastRun, h)) <= 1
                      /\ ListCalls(lastRun, h) = {}
                      /\ \A j \in DOMAIN lastRun.visited : lastRun.visited[j][1] # h
                      /\ (reached /\ i < Len(endpoints)) =>
                            (\/ HostErrors(lastRun, endpoints[i + 1]) # {}
                             \/ ListCalls(lastRun, endpoints[i + 1]) # {})
                /\ (/\ race.replies[h] # "array"
                    /\ lastRun.startCursor = NoCursor /\ lastRun.nextCursor = NoCursor) =>
                      Cardinality(HostErrors(lastRun, h)) = 1

\* the first backend answered with a payload that is no result array, and
\* the pass went on to process the keys of the second
C28_Witness ==
    /\ lastRun.kind = "update"
    /\ race.replies["A"] = "notArray" /\ race.replies["B"] = "array"
    /\ Cardinality(HostErrors(lastRun, "A")) = 1
    /\ \E j \in DOMAIN lastRun.visited : lastRun.visited[j][1] = "B"

---------------------------------------------------------------------------
(* Requests with X-Target-Key or X-Target-Server beside the cursor-driven  *)
(* passes (SpecTarget).  `race` is the target of the last request.         *)

NoTarget == ""

Target(key, server) == [key |-> key, server |-> server]

\* the targeted branches of both handleRequest functions with the cursor
\* handling of the untargeted branch
StateAfterTargetPersisted(kv, cursorKey, isDryRun, nextCursor) ==
    PersistCursor(kv, cursorKey, isDryRun, nextCursor)

\* update.js 47-48, delete.js 55-58: the targeted branches make no call on
\* STATE_NAMESPACE, whatever nextCursor the scan returned
StateAfterTarget(kv, cursorKey, isDryRun, nextCursor) == kv

\* handlers/update.js updateTargetKey(targetKey, isDryRun, isDebug)
updateTargetKey(targetKey, inp, kv) ==
    LET hostname == HostOf(targetKey)
    IN IF \A i \in 1..Len(inp.hostnames) : inp.hostnames[i] # hostname
       THEN PushError(EmptyCtx(kv), HostError("Endpoint not found for hostname", hostname))
       ELSE processKey(targetKey, ActiveKeys(hostname, inp.snap), inp.isDryRun, "none",
                       EmptyCtx(kv))

\* handlers/delete.js processKeys([targetKey], isDryRun, targetServer, s3Providers)
processKeys(key, targetServer, t, inp, ctx) ==
    IF targetServer # NoTarget /\ HostOf(key) # targetServer
    THEN PushError(ctx, [msg |-> "does not match target server", host |-> key[1], id |-> key[2]])
    ELSE IF key \notin DOMAIN ctx.kv
    THEN PushError(ctx, [msg |-> "Key not found", host |-> key[1], id |-> key[2]])
    ELSE processKeyForDeletion(key, ctx.kv[key], t, inp, ctx)

MaxTargetKeys == 2

\* idle credentials, the first of the second backend in use again
InitTarget ==
    /\ \E counts \in [HostSet -> 0..MaxTargetKeys] :
          accessKeys = [key \in DOMAIN Population(counts) |-> IdleRecord]
    /\ backendKeys = DOMAIN accessKeys
    /\ endpoints = Hostnames
    /\ oracle = [key \in KeyNames |-> IF key = <<"B", 1>> THEN Sample(1, 0) ELSE NoSample]
    /\ stateKV = EmptyFn
    /\ now = NowStart
    /\ maxKeys \in 1..MaxBudget
    /\ lastRun = NoRun
    /\ passLog = <<>>
    /\ race = Target(<<>>, NoTarget)

\* a cursor-driven pass of either handler
CursorPass(handler, badCursor) ==
    /\ IF handler = "update" THEN Reconcile(FALSE, NoFaults, badCursor)
                             ELSE Revoke(FALSE, NoFaults, badCursor)
    /\ race' = Target(<<>>, NoTarget)
    /\ UNCHANGED passLog

\* POST /update with X-Target-Key
TargetKeyUpdate(targetKey, isDryRun) ==
    \E r \in {updateTargetKey(targetKey,
                  Input(isDryRun, endpoints, Snapshot(oracle, now), NoFaults, "throw"),
                  accessKeys)} :
       /\ accessKeys' = r.kv
       /\ stateKV' = StateAfterTarget(stateKV, UPDATE_CURSOR_KEY, isDryRun, NoCursor)
       /\ lastRun' = [NoRun EXCEPT !.kind = "updateTarget", !.isDryRun = isDryRun,
                                   !.visited = r.visited, !.puts = r.puts,
                                   !.errors = r.errors, !.updatedKeys = r.updatedKeys]
       /\ race' = Target(targetKey, NoTarget)
       /\ UNCHANGED <<oracle, backendKeys, endpoints, now, maxKeys, passLog>>

\* POST /delete with X-Target-Key, with or without X-Target-Server
TargetKeyDelete(targetKey, targetServer, isDryRun) ==
    \E r \in {processKeys(targetKey, targetServer, now,
                  Input(isDryRun, endpoints, Snapshot(oracle, now), NoFaults, "throw"),
                  EmptyDelCtx(accessKeys, backendKeys))} :
       /\ accessKeys' = r.kv
       /\ backendKeys' = r.backend
       /\ stateKV' = StateAfterTarget(stateKV, DELETE_CURSOR_KEY, isDryRun, NoCursor)
       /\ lastRun' = [NoRun EXCEPT !.kind = "deleteTarget", !.isDryRun = isDryRun,
                                   !.puts = r.puts, !.errors = r.errors,
                                   !.processedKeys = r.processedKeys,
                                   !.deleteCalls = r.deleteCalls]
       /\ race' = Target(targetKey, targetServer)
       /\ UNCHANGED <<oracle, endpoints, now, maxKeys, passLog>>

\* POST /delete with X-Target-Server only
TargetServerDelete(targetServer, isDryRun) ==
    \E r \in {processKeysForServer(targetServer, maxKeys, now,
                  Input(isDryRun, endpoints, Snapshot(oracle, now), NoFaults, "throw"),
                  EmptyDelCtx(accessKeys, backendKeys))} :
       /\ accessKeys' = r.ctx.kv
       /\ backendKeys' = r.ctx.backend
       /\ stateKV' = StateAfterTarget(stateKV, DELETE_CURSOR_KEY, isDryRun, r.nextCursor)
       /\ lastRun' = [NoRun EXCEPT !.kind = "deleteTarget", !.isDryRun = isDryRun,
                                   !.nextCursor = r.nextCursor,
                                   !.puts = r.ctx.puts, !.errors = r.ctx.errors,
                                   !.processedKeys = r.ctx.processedKeys,
                                   !.deleteCalls = r.ctx.deleteCalls]
       /\ race' = Target(<<>>, targetServer)
       /\ UNCHANGED <<oracle, endpoints, now, maxKeys, passLog>>

\* the values of X-Target-Key: the first key of either backend and a name
\* the store does not hold
TargetKeys == {<<"A", 1>>, <<"B", 1>>, <<"B", MaxTargetKeys + 1>>}

NextTarget ==
    \/ \E badCursor \in BadModesFor(UPDATE_CURSOR_KEY) : CursorPass("update", badCursor)
    \/ \E badCursor \in BadModesFor(DELETE_CURSOR_KEY) : CursorPass("delete", badCursor)
    \/ \E targetKey \in TargetKeys : TargetKeyUpdate(targetKey, FALSE)
    \/ \E targetKey \in TargetKeys, targetServer \in {NoTarget, "A"} :
          TargetKeyDelete(targetKey, targetServer, FALSE)
    \/ \E targetServer \in HostSet, isDryRun \in BOOLEAN :
          TargetServerDelete(targetServer, isDryRun)

SpecTarget == InitTarget /\ [][NextTarget]_vars

\* the step is a request with a target header
TargetStep == lastRun'.kind \in {"updateTarget", "deleteTarget"}

\* key is the named credential or a credential of the named backend
InTarget(target, key) ==
    /\ target.key # <<>> => key = target.key
    /\ target.server # NoTarget => HostOf(key) = target.server

---------------------------------------------------------------------------
(* Revocation of a credential with published assets (SpecAssets).  `race`  *)
(* is the last request: its key, what the asset store did, the failing     *)
(* operation and the s3DeleteStatus of the report.                         *)

MaxPaths == 2

\* the values of deleteFromS3 for the entries of keyData.s3Paths (false
\* also when no provider matches the URL)
S3Results == UNION {[1..n -> BOOLEAN] : n \in 0..MaxPaths}

(* configured: DELETE_S3_OBJECTS && s3Providers.length > 0; throws: the    *)
(* call of deleteFromMultipleS3 rejects.                                   *)
S3Call(results, throws, configured) ==
    [results |-> results, throws |-> throws, configured |-> configured]

\* every result list with deletion configured, a rejected call, and
\* deletion not configured with and without assets
S3Calls ==
    {S3Call(results, FALSE, TRUE) : results \in S3Results}
    \cup {S3Call(<<TRUE>>, TRUE, TRUE), S3Call(<<TRUE>>, FALSE, FALSE),
          S3Call(<<>>, FALSE, FALSE)}

\* utils/s3Storage.js deleteFromMultipleS3: successCount > 0
deleteFromMultipleS3(results) == \E i \in DOMAIN results : results[i]

\* keyInfo.s3DeleteStatus, handlers/delete.js lines 231-245; "" when the
\* field is not set
S3DeleteStatus(call) ==
    IF call.configured /\ Len(call.results) > 0
    THEN IF call.throws THEN "Failed"
         ELSE IF deleteFromMultipleS3(call.results) THEN "Deleted"
         ELSE "Partial failure"
    ELSE IF Len(call.results) > 0 THEN "Skipped (S3 deletion disabled)"
    ELSE ""

\* the error of the asset deletion is caught at line 237 and does not reach
\* the catch of line 255
AssetErrorEscapes(call) == FALSE

\* processKeyForDeletion, lines 211-262, for a credential whose assets
\* answer as in call
DeleteWithAssets(key, keyData, t, inp, ctx, call) ==
    IF \/ inp.hostFault[HostOf(key)] = "noEndpoint"
       \/ ~DeleteSucceeds(key, ctx.backend, inp.delFault[key])
    THEN [ctx |-> DeleteOnBackend(key, keyData, t, inp, ctx), s3DeleteStatus |-> ""]
    ELSE IF AssetErrorEscapes(call)
    THEN [ctx |-> [ctx EXCEPT !.deleteCalls = Append(@, key),
                              !.backend = @ \ {key},
                              !.processedKeys = Append(@, KeyInfo(key, "Error"))],
          s3DeleteStatus |-> ""]
    ELSE [ctx |-> DeleteOnBackend(key, keyData, t, inp, ctx),
          s3DeleteStatus |-> S3DeleteStatus(call)]

AssetRequest(key, call, fault, deleted, status) ==
    [key |-> key, call |-> call, fault |-> fault, backendDeleted |-> deleted,
     s3DeleteStatus |-> status]

MaxAssetKeys == 1

InitAssets ==
    /\ \E counts \in [HostSet -> 0..MaxAssetKeys] :
          accessKeys = [key \in DOMAIN Population(counts) |-> IdleRecord]
    /\ backendKeys = DOMAIN accessKeys
    /\ endpoints = Hostnames
    /\ oracle = [key \in KeyNames |-> NoSample]
    /\ stateKV = EmptyFn
    /\ now = NowStart
    /\ maxKeys \in 1..MaxBudget
    /\ lastRun = NoRun
    /\ passLog = <<>>
    /\ race = AssetRequest(<<>>, S3Call(<<>>, FALSE, FALSE), "none", FALSE, "")

\* POST /delete with X-Target-Key and X-Dry-Run: false for a credential
\* due for deletion
AssetDelete(targetKey, call, fault) ==
    /\ targetKey \in DOMAIN accessKeys
    /\ ShouldDelete(accessKeys[targetKey], now)
    /\ \E r \in {DeleteWithAssets(targetKey, accessKeys[targetKey], now,
                    Input(FALSE, endpoints, Snapshot(oracle, now),
                          [i \in 1..MaxFaults |->
                              IF fault = "none" THEN NoFault ELSE KeyFault(targetKey, fault)],
                          "throw"),
                    EmptyDelCtx(accessKeys, backendKeys), call)} :
          /\ accessKeys' = r.ctx.kv
          /\ backendKeys' = r.ctx.backend
          /\ lastRun' = [NoRun EXCEPT !.kind = "deleteTarget",
                                      !.puts = r.ctx.puts, !.errors = r.ctx.errors,
                                      !.processedKeys = r.ctx.processedKeys,
                                      !.deleteCalls = r.ctx.deleteCalls]
          /\ race' = AssetRequest(targetKey, call, fault,
                                  DeleteSucceeds(targetKey, backendKeys,
                                                 IF fault = "del" THEN "fail" ELSE "none"),
                                  r.s3DeleteStatus)
    /\ UNCHANGED <<oracle, endpoints, stateKV, now, maxKeys, passLog>>

NextAssets ==
    \E targetKey \in KeyNames, call \in S3Calls, fault \in {"none", "del", "put"} :
       AssetDelete(targetKey, call, fault)

SpecAssets == InitAssets /\ [][NextAssets]_vars

\* the backend-side delete of the last request succeeded and the deletion
\* of its assets was attempted and failed, wholly, partly or by an error
AssetDeletionFailed ==
    /\ lastRun.kind = "deleteTarget" /\ race.fault = "none"
    /\ race.backendDeleted
    /\ race.call.configured /\ Len(race.call.results) > 0
    /\ race.call.throws \/ \E i \in DOMAIN race.call.results : ~race.call.results[i]

\* the tombstone of the last request's credential was written
TombstoneWritten ==
    /\ accessKeys[race.key].deletionTime = now
    /\ accessKeys[race.key].currentlyConnected = "null"
    /\ StatusOf(lastRun, race.key) = {"Deleted"}

\* C30: once the backend-side delete has succeeded, a failure of the
\* deletion of the credential's assets (all of them, some of them, or a
\* thrown error) is recorded in the report and the tombstone is written all
\* the same: deletionTime set, currentlyConnected cleared.
C30_AssetDeletionBestEffort ==
    AssetDeletionFailed =>
       /\ race.s3DeleteStatus \in {"Partial failure", "Failed"}
       /\ TombstoneWritten

\* the part of C30 about the tombstone alone
C30_TombstoneDespiteAssetFailure == AssetDeletionFailed => TombstoneWritten

---------------------------------------------------------------------------
(* The scheduled trigger (SpecScheduled).  `race` holds the handlers the   *)
(* last trigger invoked, in order.                                         *)

InitScheduled ==
    /\ \E counts \in [HostSet -> 0..MaxKeysPerHost], rec \in {IdleRecord, RecentRecord} :
          accessKeys = [key \in DOMAIN Population(counts) |-> rec]
    /\ backendKeys = DOMAIN accessKeys
    /\ endpoints = Hostnames
    /\ oracle = [key \in KeyNames |-> NoSample]
    /\ stateKV = EmptyFn
    /\ now = NowStart
    /\ maxKeys \in 1..MaxBudget
    /\ lastRun = NoRun
    /\ passLog = <<>>
    /\ race = [invoked |-> <<>>]

\* index.js handleScheduledEvent: the import and call of handlers/delete.js
\* are commented out; update's handleRequest(null, true) runs for real
\* (isDryRun = request && ... is null)
handleScheduledEvent(badCursor) ==
    /\ Reconcile(FALSE, NoFaults, badCursor)
    /\ race' = [invoked |-> <<"update">>]
    /\ UNCHANGED passLog

NextScheduled ==
    \E badCursor \in BadModesFor(UPDATE_CURSOR_KEY) : handleScheduledEvent(badCursor)

SpecScheduled == InitScheduled /\ [][NextScheduled]_vars

\* C31: every scheduled trigger invokes the reconciliation scan and, after
\* it has finished, the revocation scan, in this order.
C31_ScheduledOrdering ==
    lastRun.kind # "none" => race.invoked = <<"update", "delete">>

---------------------------------------------------------------------------
(* The cursor string written by one invocation and parsed by the next      *)
(* (SpecCursor).  `race` is the backend, the store's token, the persisted  *)
(* string and what the next invocation makes of it.                        *)

MaxTokenLen == 3

\* the characters of a store cursor token: two ordinary ones and ':'
TokenChars == {"i", "x", ":"}

CursorTokens == UNION {[1..n -> TokenChars] : n \in 1..MaxTokenLen}

InitCursor ==
    /\ accessKeys = EmptyFn
    /\ oracle = [key \in KeyNames |-> NoSample]
    /\ backendKeys = {}
    /\ endpoints = Hostnames
    /\ stateKV = EmptyFn
    /\ now = NowStart
    /\ maxKeys = 1
    /\ lastRun = NoRun
    /\ passLog = <<>>
    /\ \E h \in HostSet, token \in CursorTokens :
          race = [pc |-> "scanned", host |-> h, token |-> token,
                  startHostname |-> NoCursor, currentCursor |-> NoCursor]

\* update.js 170-173 and 53-54: nextCursor = `${hostname.name}:${nextCursor}`
\* is put under UPDATE_CURSOR_KEY
PersistScanCursor ==
    /\ race.pc = "scanned"
    /\ stateKV' = StatePut(stateKV, UPDATE_CURSOR_KEY, FormatCursor(race.host, race.token))
    /\ race' = [race EXCEPT !.pc = "persisted"]
    /\ UNCHANGED <<accessKeys, oracle, backendKeys, endpoints, now, maxKeys, lastRun, passLog>>

\* update.js 50 and 133-135: the next invocation gets the string and splits it
LoadScanCursor ==
    /\ race.pc = "persisted"
    /\ \E parsed \in {ParseCursor(StateGet(stateKV, UPDATE_CURSOR_KEY))} :
          race' = [race EXCEPT !.pc = "parsed",
                               !.startHostname = parsed.startHostname,
                               !.currentCursor = parsed.currentCursor]
    /\ UNCHANGED <<accessKeys, oracle, backendKeys, endpoints, stateKV, now, maxKeys,
                   lastRun, passLog>>

NextCursor == PersistScanCursor \/ LoadScanCursor

SpecCursor == InitCursor /\ [][NextCursor]_vars

\* C32: for every backend id and every store token, also one containing
\* ':', parsing the persisted "<backendId>:<token>" gives back that backend
\* id and that token.
C32_CursorRoundTrip ==
    race.pc = "parsed" =>
       /\ race.startHostname = HostStr(race.host)
       /\ race.currentCursor = race.token

\* the round trip of the tokens that hold no ':'
C32_RoundTripWithoutSeparator ==
    (race.pc = "parsed" /\ \A i \in DOMAIN race.token : race.token[i] # ":")
    => /\ race.startHostname = HostStr(race.host)
       /\ race.currentCursor = race.token

---------------------------------------------------------------------------
(* Properties of an invocation with failing usage queries (SpecAdapter).   *)

\* the usage query of backend h failed in the last invocation
QueryFailed(h) == race.replies[h] # "array" /\ HostErrors(lastRun, h) # {}

\* C33: when the usage query of a backend fails, the invocation writes no
\* record of that backend, spends none of the budget on it, and still
\* processes the backends after it: the next backend is scanned from its
\* first credential.
C33_OracleFailureLeavesBackendUntouched ==
    lastRun.kind = "update" =>
       \A i \in 1..Len(endpoints) :
          QueryFailed(endpoints[i]) =>
             /\ \A j \in DOMAIN lastRun.puts : lastRun.puts[j][1] # endpoints[i]
             /\ \A j \in DOMAIN lastRun.visited : lastRun.visited[j][1] # endpoints[i]
             /\ (/\ i < Len(endpoints)
                 /\ race.replies[endpoints[i + 1]] = "array"
                 /\ KeysOf(accessKeys, endpoints[i + 1]) # <<>>)
                => KeysOf(accessKeys, endpoints[i + 1])[1] \in Range(lastRun.visited)

\* the first two parts of C33: nothing of the failing backend is read or written
C33_NothingOfFailingBackend ==
    lastRun.kind = "update" =>
       \A i \in 1..Len(endpoints) :
          QueryFailed(endpoints[i]) =>
             /\ \A j \in DOMAIN lastRun.puts : lastRun.puts[j][1] # endpoints[i]
             /\ \A j \in DOMAIN lastRun.visited : lastRun.visited[j][1] # endpoints[i]
             /\ ListCalls(lastRun, endpoints[i]) = {}

---------------------------------------------------------------------------
(* Repeated reconciliation invocations over a population with one record   *)
(* that can never be read (SpecPoison).  `passLog` collects the keys       *)
(* processKey was called on; `race.round` is 1 while an invocation runs.   *)

\* the credential whose record is unreadable in every invocation
PoisonKey == <<"A", 1>>

RECURSIVE AddVisited(_, _)
\* log, followed by the keys of visited that it does not hold yet
AddVisited(log, visited) ==
    IF visited = <<>> THEN log
    ELSE AddVisited(IF Head(visited) \in Range(log) THEN log ELSE Append(log, Head(visited)),
                    Tail(visited))

InitPoison ==
    /\ \E counts \in [HostSet -> 0..MaxKeysPerHost] :
          counts["A"] >= 1 /\ accessKeys = Population(counts)
    /\ backendKeys = DOMAIN accessKeys
    /\ endpoints = Hostnames
    /\ oracle = [key \in KeyNames |-> NoSample]
    /\ stateKV = EmptyFn
    /\ now = NowStart
    /\ maxKeys \in 1..MaxBudget
    /\ lastRun = NoRun
    /\ passLog = <<>>
    /\ race = [round |-> 0]

\* one non-dry-run invocation of handlers/update.js in which the get of
\* PoisonKey fails after its retries
PoisonScan(badCursor) ==
    /\ race.round = 0
    /\ Reconcile(FALSE, [i \in 1..MaxFaults |-> KeyFault(PoisonKey, "get")], badCursor)
    /\ passLog' = AddVisited(passLog, lastRun'.visited)
    /\ race' = [round |-> 1]

NextPoison ==
    \/ \E badCursor \in BadModesFor(UPDATE_CURSOR_KEY) : PoisonScan(badCursor)
    \/ Answered

SpecPoison == InitPoison /\ [][NextPoison]_vars

\* every invocation comes to its end
SpecPoisonFair == SpecPoison /\ WF_vars(Answered)

\* C34: a credential whose processing fails still consumes one unit of the
\* budget and the returned cursor lies past it, so under repeated
\* invocations every credential listed after a permanently failing one is
\* eventually processed.
C34_PoisonCannotStall ==
    RepeatedInvocations =>
       \A key \in KeyNames :
          (key \in DOMAIN accessKeys /\ key # PoisonKey) ~> (key \in Range(passLog))

\* the part of C34 about one invocation: the failing credential is counted
\* against the budget and an error is reported for it
C34_PoisonConsumesBudget ==
    lastRun.kind = "update" =>
       /\ Len(lastRun.visited) <= maxKeys
       /\ PoisonKey \in Range(lastRun.visited) => KeyError(PoisonKey) \in Range(lastRun.errors)

---------------------------------------------------------------------------
(* The aggregated report of a cursor-driven revocation run (SpecRevScan:   *)
(* no operation fails, so every per-backend scan completes).               *)

\* C35: a backend whose per-backend scan completed without throwing
\* contributes its per-credential outcomes and errors to the report of
\* processAllKeys and no 'Error processing hostname' entry.
C35_ReportAggregation ==
    lastRun.kind = "delete" =>
       \A i \in DOMAIN lastRun.errors : lastRun.errors[i].msg # "Error processing hostname"

---------------------------------------------------------------------------
(* The join of the scorer's probes (SpecScore).                            *)

\* C36: getOptimalApiEndpoint ranks only after every backend's probe has
\* finished; whenever it returns a backend or throws 'No available API
\* endpoints.' no probe is still pending, also when the endpoint-store
\* lookup of one backend rejects.
C36_ScorerJoinComplete ==
    race.pc \in {"selected", "unavailable"} => race.done = DOMAIN race.probes

\* the join when no endpoint-store lookup rejects
C36_JoinWithoutRejectedLookup ==
    (/\ race.pc \in {"selected", "unavailable"}
     /\ \A h \in DOMAIN race.probes : race.probes[h].get # "throws")
    => race.done = DOMAIN race.probes

---------------------------------------------------------------------------
(* The issuance request with its failure paths (SpecIssue).  `race` holds  *)
(* the ids each backend has given out and what the last request did:       *)
(* `created` the credentials it created on a backend, `status` the status  *)
(* of its response (0 before the first request).                           *)

MaxCreated == 3         \* credentials created on the backends in a behaviour

\* what the calls of one issuance request do: the Turnstile verdict, the
\* backend that getOptimalApiEndpoint selects (or its failure), the reply to
\* the creation, whether the credential is a WebSocket one with S3 enabled,
\* the upload, the cleanup deletion and the write of the record
IssueCalls ==
    [approved : BOOLEAN, selected : HostSet \cup {"none"},
     create : {"ok", "notOk", "throws"}, websocket : BOOLEAN,
     upload : {"ok", "fails"}, cleanup : {"ok", "fails"}, put : {"ok", "throws"}]

\* the outcome of a request: final stores, the credentials created, status
IssueOutcome(kv, backend, created, status) ==
    [kv |-> kv, backend |-> backend, created |-> created, status |-> status]

\* handlers/get.js handleRequest for a POST, the backend giving `id`
handleIssueRequest(kv, backend, t, id, c) ==
    IF ~c.approved THEN IssueOutcome(kv, backend, {}, 403)
    ELSE IF c.selected = "none" THEN IssueOutcome(kv, backend, {}, 503)
    ELSE IF c.create # "ok" THEN IssueOutcome(kv, backend, {}, 500)
    ELSE LET key == <<c.selected, id>>
             made == backend \cup {key}
         IN IF c.websocket /\ c.upload = "fails"
            THEN IssueOutcome(kv, IF c.cleanup = "ok" THEN made \ {key} ELSE made,
                              {key}, 500)
            ELSE IF c.put = "throws"
            THEN IssueOutcome(kv, made, {key}, 500)
            ELSE IssueOutcome([k \in DOMAIN kv \cup {key} |->
                                  IF k = key THEN FreshRecord(t) ELSE kv[k]],
                              made, {key}, 200)

InitIssue ==
    /\ accessKeys = << >>
    /\ backendKeys = {}
    /\ oracle = [k \in KeyNames |-> NoSample]
    /\ endpoints = HostSet
    /\ stateKV = EmptyFn
    /\ now = NowStart
    /\ maxKeys = 1
    /\ lastRun = NoRun
    /\ passLog = <<>>
    /\ race = [ids |-> [h \in HostSet |-> 0], created |-> {}, status |-> 0]

\* the credentials that the backends have created so far
CreatedSoFar == {key \in KeyNames : key[2] <= race.ids[key[1]]}

\* one issuance request; a backend never gives an id twice
IssueRequest(c) ==
    /\ Cardinality(CreatedSoFar) < MaxCreated
    /\ c.selected # "none" => race.ids[c.selected] < MaxKeysPerHost
    /\ LET id == IF c.selected = "none" THEN 0 ELSE race.ids[c.selected] + 1
           r == handleIssueRequest(accessKeys, backendKeys, now, id, c)
       IN /\ accessKeys' = r.kv
          /\ backendKeys' = r.backend
          /\ race' = [ids |-> IF r.created = {} THEN race.ids
                              ELSE [race.ids EXCEPT ![c.selected] = id],
                      created |-> r.created, status |-> r.status]
    /\ lastRun' = [NoRun EXCEPT !.kind = "issue"]
    /\ UNCHANGED <<oracle, endpoints, stateKV, now, maxKeys, passLog>>

NextIssue == \E c \in IssueCalls : IssueRequest(c)

SpecIssue == InitIssue /\ [][NextIssue]_vars

\* C37: after an issuance request completes on any path, every credential
\* the request created on a backend has a record in the credential store or
\* has been deleted from the backend again, and the request created at most
\* one backend credential.
C37_IssuanceLeavesNoOrphan ==
    race.status # 0 =>
        /\ \A key \in race.created : key \in DOMAIN accessKeys \/ key \notin backendKeys
        /\ Cardinality(race.created) <= 1

\* a request creates at most one backend credential, and a request that
\* answers 200 leaves it with a record
C37_OneCredentialRecordedOnSuccess ==
    /\ Cardinality(race.created) <= 1
    /\ race.status = 200 =>
          /\ race.created # {}
          /\ race.created \subseteq DOMAIN accessKeys \cap backendKeys

---------------------------------------------------------------------------
(* The retry policy for every value of maxRetries, zero included           *)
(* (SpecRetryAny).  lastError = 0 is the `undefined` that lastError holds  *)
(* before the first catch.                                                 *)

InitRetryAny ==
    /\ accessKeys = EmptyFn
    /\ oracle = [key \in KeyNames |-> NoSample]
    /\ backendKeys = {}
    /\ endpoints = Hostnames
    /\ stateKV = EmptyFn
    /\ now = NowStart
    /\ maxKeys = 1
    /\ lastRun = NoRun
    /\ passLog = <<>>
    /\ \E maxRetries \in 0..MaxRetriesArg, script \in [1..(MaxRetriesArg + 1) -> Outcomes] :
          race = RetryStart(maxRetries, script)

SpecRetryAny == InitRetryAny /\ [][NextRetry]_vars

\* retry has ended: fn was called at least once, a first call that resolves
\* makes retry return, and what retry throws is an error that fn raised
AttemptedAndFaithful(st) ==
    /\ st.calls >= 1
    /\ st.script[1] = "ok" => st.pc = "returned"
    /\ st.pc = "threw" => st.lastError \in 1..st.calls

\* C38: for every maxRetries, 0 included, retry(fn) invokes fn at least
\* once, an operation that would succeed on its first attempt never fails
\* because of the wrapper, and a failure thrown by retry is an error raised
\* by fn.
C38_RetryAlwaysAttempts ==
    race.pc # "loop" => AttemptedAndFaithful(race)

\* the same for every maxRetries of at least one
C38_AttemptsWhenPositive ==
    (race.pc # "loop" /\ race.maxRetries >= 1) => AttemptedAndFaithful(race)

============================================================================
